---- MODULE Spec2Model ----
(***************************************************************************)
(* PyTRex control-plane transport.                                         *)
(*                                                                         *)
(* Part I  - the synchronous JSON-RPC client                               *)
(*           (pytrex/api/trex_stl_jsonrpc_client.py): BatchMessage and     *)
(*           JsonRpcClient, driven by concurrent caller threads.           *)
(* Part II - the asynchronous subscriber                                   *)
(*           (pytrex/api/trex_stl_async_client.py): CTRexAsyncClient with  *)
(*           its background receive thread.                                *)
(***************************************************************************)
EXTENDS Integers, Sequences, FiniteSets, TLC

(***************************************************************************)
(* Bounds of the model.                                                    *)
(***************************************************************************)
MaxBatch == 2
MaxRetry == 1
\* The largest barrier timeout tried, in fast loops of barrier().
MaxTimeout == 1

\* The caller threads.  KeyboardInterrupt is delivered to the main thread of
\* the interpreter only; the worker issues single calls, the main thread
\* single calls and batches.
Threads == {"main", "worker"}
MainThread == "main"
BatchCallers == {"main"}
\* len(json.dumps(msg)) of an envelope, and the chunk_size arguments tried
\* (0 stands for every falsy chunk_size: the unchunked branch).
MsgSizes == {1, 2}
ChunkSizes == {0, 1, 2}
Retries == 0..MaxRetry

(***************************************************************************)
(* Part I: state of the JSON-RPC client.                                   *)
(***************************************************************************)
VARIABLES
    connected,       \* JsonRpcClient.connected
    socket,          \* state of JsonRpcClient.socket (a zmq.REQ socket)
    lock,            \* JsonRpcClient.lock: "free", else the holding thread
    pc,              \* per caller thread: position in its current call
    phase,           \* per thread: which send_msg call site it is at
    batch_list,      \* per thread: BatchMessage.batch_list (envelope sizes)
    chunk_size,      \* per thread: BatchMessage.invoke chunk_size argument
    invoke_retry,    \* per thread: retry argument of invoke / invoke_rpc_method
    idx,             \* per thread: position of the for-loop of invoke
    response_batch,  \* per thread: local response_batch of invoke
    msg,             \* per thread: the wire message handed to send_msg
    retry,           \* per thread: retry argument of the current send_msg
    retry_left,      \* per thread: local retry_left of _send_raw_msg_safe
    send_attempts,   \* per thread: socket.send calls made in this send_msg
    recv_attempts,   \* per thread: socket.recv calls made in this send_msg
    response,        \* per thread: the reply received by socket.recv
    result           \* per thread: what the call returned or raised

rpcVars == <<connected, socket, lock, pc, phase, batch_list, chunk_size,
             invoke_retry, idx, response_batch, msg, retry, retry_left,
             send_attempts, recv_attempts, response, result>>

(***************************************************************************)
(* Part II: state of the asynchronous subscriber.                          *)
(***************************************************************************)
VARIABLES
    t_state,            \* CTRexAsyncClient.t_state
    async_connected,    \* CTRexAsyncClient.connected
    context,            \* CTRexAsyncClient.context: "none", "open", "terminated"
    async_barrier,      \* CTRexAsyncClient.async_barrier: None or {key, ack}
    last_data_recv_ts,  \* CTRexAsyncClient.last_data_recv_ts: 0, None or a time
    monitor,            \* AsyncUtil.state of CTRexAsyncClient.monitor
    thr,                \* position of the background thread in _run_safe / _run
    got_data,           \* local got_data of _run
    line,               \* local line of _run: the message socket.recv returned
    recv_state,         \* t_state at the moment socket.recv returned line, or
                        \* "terminated" when it raised ContextTerminated
    calls,              \* handler calls made by the latest step of the thread
    last_note,          \* last channel notification fired by the running thread
    ctl,                \* position of the controlling thread in its API call
    ctl_op,             \* the API call the controlling thread made last
    ctl_result,         \* how that call ended
    sub_socket,         \* CTRexAsyncClient.socket: "none", "open", "closed"
    signalled,          \* os.killpg(os.getppid(), SIGTERM) has been called
    orphans,            \* running threads self.t no longer refers to
    clock,              \* time.time() since barrier() computed expr, in units
                        \* of one fast loop (100 sleeps of 1 ms)
    expr,               \* local expr of barrier(), on the same scale
    publishes,          \* publish_now calls the current barrier() has made
    raw_snapshot        \* CTRexAsyncClient.raw_snapshot, its entries for the
                        \* tags of SnapshotTags

\* The variables of barrier()'s deadline.
barVars == <<clock, expr, publishes>>

\* The variables of the thread's socket and of the crash handling.
crashVars == <<sub_socket, signalled, orphans>>

subVars == <<t_state, async_connected, context, async_barrier, last_data_recv_ts,
             monitor, thr, got_data, line, recv_state, calls, last_note, ctl,
             ctl_op, ctl_result, barVars, crashVars, raw_snapshot>>

(***************************************************************************)
(* Part III: state of the statistics objects, of the utilisation monitor,  *)
(* of a port's counters and of the compression codec.                      *)
(***************************************************************************)
VARIABLES
    mgr,        \* CTRexAsyncStatsManager.update: the snapshot handed to it and
                \* the general_stats / port_stats dicts __handle_snapshot builds
    scope,      \* ref_point and current of the manager's CTRexAsyncStats objects
    util,       \* an AsyncUtil and the time.time() readings it has taken
    trex_port,  \* a TrexPort's counters, and those of its port on the server
    zip         \* a payload on its way through ZippedMsg and the transport

libVars == <<mgr, scope, util, trex_port, zip>>

vars == <<rpcVars, subVars, libVars>>

(***************************************************************************)
(* Wire data.  A request envelope is known by its id: the position at      *)
(* which BatchMessage.add appended it (0 for a single call).  A response   *)
(* element carries the id it answers and the fields check_response reads.  *)
(***************************************************************************)
\* Every response body check_response tells apart: the protocol version, the
\* presence of "result", and the "error" member (absent, with a message only,
\* with a specific_err beside or without a message, or an object holding
\* neither).
AllBodies ==
    [jsonrpc : {"2.0", "1.0"}, result : BOOLEAN,
     error : {"absent", "message", "specific_err", "empty"}]

\* The bodies the server produces while callers run concurrently: a proper
\* result, a wrong protocol version, and a server error.
ServerBodies ==
    { [jsonrpc |-> "2.0", result |-> TRUE,  error |-> "absent"],
      [jsonrpc |-> "1.0", result |-> TRUE,  error |-> "absent"],
      [jsonrpc |-> "2.0", result |-> FALSE, error |-> "message"] }

Elem(id, b) ==
    [id |-> id, jsonrpc |-> b.jsonrpc, result |-> b.result, error |-> b.error]

NoResponse == [kind |-> "none", elems |-> <<>>]

\* A JSON answer to the wire message m with bodies from B: one response
\* element per request, each carrying the id of its request.
JsonReplies(m, B) ==
    {[kind |-> "json", elems |-> [i \in 1..Len(m) |-> Elem(m[i], f[i])]] :
        f \in [1..Len(m) -> B]}

\* Any frame socket.recv may return for m: also an empty frame and bytes that
\* are no JSON.
Replies(m, B) ==
    {[kind |-> "empty", elems |-> <<>>], [kind |-> "garbage", elems |-> <<>>]}
    \cup JsonReplies(m, B)

NoResult == [status |-> "none", val |-> <<>>]
Raised(e) == [status |-> e, val |-> <<>>]
Returned(v) == [status |-> "ok", val |-> v]

\* check_response without the protocol version test.
check_response_any_version(r) ==
    IF r.error # "absent"
    THEN (IF r.error = "specific_err" THEN "specific_err"
          ELSE IF r.error = "message" THEN "message" ELSE "KeyError")
    ELSE IF ~r.result THEN "Malformed" ELSE "ok"

\* An error text that is the generic message whenever there is one.
error_text_generic(r) ==
    IF r.error \in {"message", "specific_err"} THEN "message" ELSE "KeyError"

\* Lines 195-199: the text of the TrexError raised for an error object.
error_text(r) ==
    IF r.error = "specific_err" THEN "specific_err"
    ELSE IF r.error = "message" THEN "message" ELSE "KeyError"

\* JsonRpcClient.check_response: "ok" or the error it raises.
check_response(r) ==
    IF r.jsonrpc # "2.0" THEN "Malformed"
    ELSE IF r.error # "absent" THEN error_text(r)
         ELSE IF ~r.result THEN "Malformed" ELSE "ok"

\* The loop of __send_msg over response_list stops at the first element
\* check_response rejects.
FirstRejected(es) ==
    IF \E i \in 1..Len(es) : check_response(es[i]) # "ok"
    THEN CHOOSE i \in 1..Len(es) :
            /\ check_response(es[i]) # "ok"
            /\ \A j \in 1..(i - 1) : check_response(es[j]) = "ok"
    ELSE 0

Ids(es) == [i \in 1..Len(es) |-> es[i].id]

\* JsonRpcClient.__send_msg after send_raw_msg has returned the reply r.
send_msg_outcome(r) ==
    IF r.kind = "empty" THEN [status |-> "empty", val |-> <<>>]
    ELSE IF r.kind = "garbage" THEN Raised("JSONDecodeError")
    ELSE IF FirstRejected(r.elems) # 0
         THEN Raised(check_response(r.elems[FirstRejected(r.elems)]))
         ELSE Returned(Ids(r.elems))

\* A loop that flushes as soon as the size reaches chunk_size.
RECURSIVE ScanBatchAtLimit(_, _, _, _, _)
ScanBatchAtLimit(list, i, size, new_batch, C) ==
    IF i > Len(list)
    THEN [idx |-> i, new_batch |-> new_batch, flush |-> FALSE]
    ELSE LET s == size + list[i]
             nb == Append(new_batch, i)
         IN IF s >= C
            THEN [idx |-> i + 1, new_batch |-> nb, flush |-> TRUE]
            ELSE ScanBatchAtLimit(list, i + 1, s, nb, C)

\* The for-loop of BatchMessage.invoke from position i with an empty
\* new_batch: runs to the next flush (size > chunk_size) or to the end.
RECURSIVE ScanBatch(_, _, _, _, _)
ScanBatch(list, i, size, new_batch, C) ==
    IF i > Len(list)
    THEN [idx |-> i, new_batch |-> new_batch, flush |-> FALSE]
    ELSE LET s == size + list[i]
             nb == Append(new_batch, i)
         IN IF s > C
            THEN [idx |-> i + 1, new_batch |-> nb, flush |-> TRUE]
            ELSE ScanBatch(list, i + 1, s, nb, C)

(***************************************************************************)
(* Initial state: JsonRpcClient.__init__, every caller idle.               *)
(***************************************************************************)
InitRpc ==
    /\ connected = FALSE
    /\ socket = "none"
    /\ lock = "free"
    /\ pc = [t \in Threads |-> "idle"]
    /\ phase = [t \in Threads |-> "none"]
    /\ batch_list = [t \in Threads |-> <<>>]
    /\ chunk_size = [t \in Threads |-> 0]
    /\ invoke_retry = [t \in Threads |-> 0]
    /\ idx = [t \in Threads |-> 0]
    /\ response_batch = [t \in Threads |-> <<>>]
    /\ msg = [t \in Threads |-> <<>>]
    /\ retry = [t \in Threads |-> 0]
    /\ retry_left = [t \in Threads |-> 0]
    /\ send_attempts = [t \in Threads |-> 0]
    /\ recv_attempts = [t \in Threads |-> 0]
    /\ response = [t \in Threads |-> NoResponse]
    /\ result = [t \in Threads |-> NoResult]

(***************************************************************************)
(* Helpers shared by the caller actions.                                   *)
(***************************************************************************)
\* Leaving the "with self.lock" block of send_msg, normally or by exception.
Release(t) == lock' = IF lock = t THEN "free" ELSE lock

\* The call of thread t ends with outcome r.
Finish(t, r) ==
    /\ result' = [result EXCEPT ![t] = r]
    /\ pc' = [pc EXCEPT ![t] = "done"]

\* invoke / invoke_rpc_method hands wire message m to send_msg(m, retry=r).
CallSendMsg(t, m, ph, r) ==
    /\ msg' = [msg EXCEPT ![t] = m]
    /\ phase' = [phase EXCEPT ![t] = ph]
    /\ retry' = [retry EXCEPT ![t] = r]
    /\ pc' = [pc EXCEPT ![t] = "lock"]

\* Effect of JsonRpcClient.disconnect on (connected, socket).
DisconnectEffect ==
    IF connected
    THEN /\ socket' = "closed"
         /\ connected' = FALSE
    ELSE UNCHANGED <<socket, connected>>

\* Effect of JsonRpcClient.connect: disconnect if connected, then a fresh
\* REQ socket and connected = True.
ConnectEffect ==
    /\ socket' = "ready"
    /\ connected' = TRUE

\* Calls that do not look at self.connected.
NotConnectedUnchecked == FALSE

\* The guard "if not self.connected" of invoke_rpc_method and invoke.
NotConnected == ~connected

(***************************************************************************)
(* BatchMessage.add: append one envelope of serialized size s.             *)
(***************************************************************************)
add(t, s) ==
    /\ t \in BatchCallers
    /\ pc[t] = "idle"
    /\ Len(batch_list[t]) < MaxBatch
    /\ batch_list' = [batch_list EXCEPT ![t] = Append(@, s)]
    /\ UNCHANGED <<connected, socket, lock, pc, phase, chunk_size, invoke_retry,
                   idx, response_batch, msg, retry, retry_left, send_attempts,
                   recv_attempts, response, result>>
    /\ UNCHANGED <<subVars, libVars>>

(***************************************************************************)
(* JsonRpcClient.invoke_rpc_method(..., retry=r) up to its send_msg call.  *)
(***************************************************************************)
invoke_rpc_method(t, r) ==
    /\ pc[t] = "idle"
    /\ batch_list[t] = <<>>
    /\ invoke_retry' = [invoke_retry EXCEPT ![t] = r]
    /\ IF NotConnected
       THEN /\ Finish(t, Raised("NotConnected"))
            /\ UNCHANGED <<msg, phase, retry>>
       ELSE /\ CallSendMsg(t, <<0>>, "call", r)
            /\ UNCHANGED result
    /\ UNCHANGED <<connected, socket, lock, batch_list, chunk_size, idx,
                   response_batch, retry_left, send_attempts, recv_attempts,
                   response>>
    /\ UNCHANGED <<subVars, libVars>>

(***************************************************************************)
(* BatchMessage.invoke(chunk_size=c, retry=r) up to its first send_msg.    *)
(***************************************************************************)
invoke(t, c, r) ==
    /\ pc[t] = "idle"
    /\ batch_list[t] # <<>>
    /\ invoke_retry' = [invoke_retry EXCEPT ![t] = r]
    /\ chunk_size' = [chunk_size EXCEPT ![t] = c]
    /\ IF NotConnected
       THEN /\ Finish(t, Raised("NotConnected"))
            /\ UNCHANGED <<msg, phase, retry, idx>>
       ELSE IF c # 0
            THEN /\ pc' = [pc EXCEPT ![t] = "loop"]
                 /\ idx' = [idx EXCEPT ![t] = 1]
                 /\ UNCHANGED <<msg, phase, retry, result>>
            ELSE /\ CallSendMsg(t, [i \in 1..Len(batch_list[t]) |-> i], "whole", r)
                 /\ UNCHANGED <<result, idx>>
    /\ response_batch' = [response_batch EXCEPT ![t] = <<>>]
    /\ UNCHANGED <<connected, socket, lock, batch_list, retry_left, send_attempts,
                   recv_attempts, response>>
    /\ UNCHANGED <<subVars, libVars>>

\* The for-loop of invoke, resumed after a flush: to the next flush, to the
\* remainder, or to the return.  Chunks go out with send_msg's default retry.
invoke_loop(t) ==
    /\ pc[t] = "loop"
    /\ LET sc == ScanBatch(batch_list[t], idx[t], 0, <<>>, chunk_size[t])
       IN /\ idx' = [idx EXCEPT ![t] = sc.idx]
          /\ IF sc.flush
             THEN /\ CallSendMsg(t, sc.new_batch, "chunk", 0)
                  /\ UNCHANGED result
             ELSE IF sc.new_batch # <<>>
                  THEN /\ CallSendMsg(t, sc.new_batch, "last", 0)
                       /\ UNCHANGED result
                  ELSE /\ Finish(t, Returned(response_batch[t]))
                       /\ UNCHANGED <<msg, phase, retry>>
    /\ UNCHANGED <<connected, socket, lock, batch_list, chunk_size, invoke_retry,
                   response_batch, retry_left, send_attempts, recv_attempts,
                   response>>
    /\ UNCHANGED <<subVars, libVars>>

(***************************************************************************)
(* JsonRpcClient.send_msg: take the lock, then _send_raw_msg_safe.         *)
(***************************************************************************)
\* send_msg without the lock.
LockIgnored == TRUE

\* Guard of "with self.lock".
LockFree == lock = "free"

send_msg(t) ==
    /\ pc[t] = "lock"
    /\ LockFree
    /\ lock' = t
    /\ pc' = [pc EXCEPT ![t] = "send"]
    /\ retry_left' = [retry_left EXCEPT ![t] = retry[t]]
    /\ send_attempts' = [send_attempts EXCEPT ![t] = 0]
    /\ recv_attempts' = [recv_attempts EXCEPT ![t] = 0]
    /\ UNCHANGED <<connected, socket, phase, batch_list, chunk_size, invoke_retry,
                   idx, response_batch, msg, retry, response, result>>
    /\ UNCHANGED <<subVars, libVars>>

\* A receive loop that goes on with what the send loop left over.
ReceiveBudgetLeftOver(t) == retry_left[t]

\* "retry_left = retry" between the two loops of _send_raw_msg_safe.
ReceiveBudget(t) == retry[t]

\* socket.send succeeds: the request is on the wire, the receive loop starts.
send_ok(t) ==
    /\ pc[t] = "send"
    /\ socket = "ready"
    /\ socket' = "sent"
    /\ send_attempts' = [send_attempts EXCEPT ![t] = @ + 1]
    /\ retry_left' = [retry_left EXCEPT ![t] = ReceiveBudget(t)]
    /\ pc' = [pc EXCEPT ![t] = "recv"]
    /\ UNCHANGED <<connected, lock, phase, batch_list, chunk_size, invoke_retry,
                   idx, response_batch, msg, retry, recv_attempts, response,
                   result>>
    /\ UNCHANGED <<subVars, libVars>>

\* Giving up one attempt early.
ExhaustedEarly(n) == n <= 0

\* Whether the retry loops give up once retry_left has dropped to n.
Exhausted(n) == n < 0

\* socket.send raises zmq.Again.
send_again(t) ==
    /\ pc[t] = "send"
    /\ socket = "ready"
    /\ send_attempts' = [send_attempts EXCEPT ![t] = @ + 1]
    /\ retry_left' = [retry_left EXCEPT ![t] = @ - 1]
    /\ IF Exhausted(retry_left[t] - 1)
       THEN /\ DisconnectEffect
            /\ Finish(t, Raised("SendFailed"))
            /\ Release(t)
       ELSE UNCHANGED <<connected, socket, lock, pc, result>>
    /\ UNCHANGED <<phase, batch_list, chunk_size, invoke_retry, idx,
                   response_batch, msg, retry, recv_attempts, response>>
    /\ UNCHANGED <<subVars, libVars>>

\* socket.recv returns the server's reply.
recv_ok(t) ==
    /\ pc[t] = "recv"
    /\ socket = "sent"
    /\ \E r \in JsonReplies(msg[t], ServerBodies) : response' = [response EXCEPT ![t] = r]
    /\ socket' = "ready"
    /\ recv_attempts' = [recv_attempts EXCEPT ![t] = @ + 1]
    /\ pc' = [pc EXCEPT ![t] = "check"]
    /\ UNCHANGED <<connected, lock, phase, batch_list, chunk_size, invoke_retry,
                   idx, response_batch, msg, retry, retry_left, send_attempts,
                   result>>
    /\ UNCHANGED <<subVars, libVars>>

\* socket.recv raises zmq.Again.
recv_again(t) ==
    /\ pc[t] = "recv"
    /\ socket = "sent"
    /\ recv_attempts' = [recv_attempts EXCEPT ![t] = @ + 1]
    /\ retry_left' = [retry_left EXCEPT ![t] = @ - 1]
    /\ IF Exhausted(retry_left[t] - 1)
       THEN /\ DisconnectEffect
            /\ Finish(t, Raised("RecvFailed"))
            /\ Release(t)
       ELSE UNCHANGED <<connected, socket, lock, pc, result>>
    /\ UNCHANGED <<phase, batch_list, chunk_size, invoke_retry, idx,
                   response_batch, msg, retry, send_attempts, response>>
    /\ UNCHANGED <<subVars, libVars>>

\* socket.send / socket.recv on a socket that another thread has closed or
\* replaced meanwhile raises zmq.ZMQError, which nothing catches.
zmq_error(t) ==
    /\ \/ pc[t] = "send" /\ socket # "ready"
       \/ pc[t] = "recv" /\ socket # "sent"
    /\ Finish(t, Raised("ZMQError"))
    /\ Release(t)
    /\ UNCHANGED <<connected, socket, phase, batch_list, chunk_size, invoke_retry,
                   idx, response_batch, msg, retry, retry_left, send_attempts,
                   recv_attempts, response>>
    /\ UNCHANGED <<subVars, libVars>>

\* Re-raising the interrupt without restoring the socket.
InterruptNoReconnect == UNCHANGED <<socket, connected>>

\* What send_raw_msg does to (connected, socket) on KeyboardInterrupt.
InterruptEffect == ConnectEffect

(***************************************************************************)
(* JsonRpcClient.send_raw_msg: KeyboardInterrupt inside _send_raw_msg_safe.*)
(***************************************************************************)
keyboard_interrupt(t) ==
    /\ t = MainThread
    /\ pc[t] \in {"send", "recv"}
    /\ InterruptEffect
    /\ Finish(t, Raised("KeyboardInterrupt"))
    /\ Release(t)
    /\ UNCHANGED <<phase, batch_list, chunk_size, invoke_retry, idx,
                   response_batch, msg, retry, retry_left, send_attempts,
                   recv_attempts, response>>
    /\ UNCHANGED <<subVars, libVars>>

(***************************************************************************)
(* JsonRpcClient.__send_msg after the reply arrived, the release of the    *)
(* lock, and what the caller of send_msg does with the outcome.            *)
(***************************************************************************)
\* response_batch after the last send_msg of invoke returned rc.
LastChunkResult(rb, rc) == rc

\* A rejected reply that takes the connection down.
RejectionDisconnects == DisconnectEffect

\* The raise statements of __send_msg and check_response leave the socket
\* and the connected flag alone.
RejectionEffect == UNCHANGED <<connected, socket>>

process_reply(t) ==
    /\ pc[t] = "check"
    /\ Release(t)
    /\ LET out == send_msg_outcome(response[t])
       IN /\ IF phase[t] = "chunk" /\ out.status \in {"ok", "empty"}
             THEN /\ response_batch' = [response_batch EXCEPT ![t] = @ \o out.val]
                  /\ pc' = [pc EXCEPT ![t] = "loop"]
                  /\ UNCHANGED result
             ELSE IF phase[t] = "last" /\ out.status = "ok"
                  THEN /\ response_batch' = [response_batch EXCEPT ![t] =
                                                LastChunkResult(@, out.val)]
                       /\ Finish(t, Returned(LastChunkResult(response_batch[t], out.val)))
                  ELSE /\ Finish(t, out)
                       /\ UNCHANGED response_batch
          /\ IF out.status \in {"ok", "empty"}
             THEN UNCHANGED <<connected, socket>>
             ELSE RejectionEffect
    /\ UNCHANGED <<phase, batch_list, chunk_size, invoke_retry,
                   idx, msg, retry, retry_left, send_attempts, recv_attempts,
                   response>>
    /\ UNCHANGED <<subVars, libVars>>

\* The caller has its outcome; the BatchMessage and the locals are dropped.
return(t) ==
    /\ pc[t] = "done"
    /\ pc' = [pc EXCEPT ![t] = "idle"]
    /\ phase' = [phase EXCEPT ![t] = "none"]
    /\ batch_list' = [batch_list EXCEPT ![t] = <<>>]
    /\ chunk_size' = [chunk_size EXCEPT ![t] = 0]
    /\ invoke_retry' = [invoke_retry EXCEPT ![t] = 0]
    /\ idx' = [idx EXCEPT ![t] = 0]
    /\ response_batch' = [response_batch EXCEPT ![t] = <<>>]
    /\ msg' = [msg EXCEPT ![t] = <<>>]
    /\ retry' = [retry EXCEPT ![t] = 0]
    /\ retry_left' = [retry_left EXCEPT ![t] = 0]
    /\ send_attempts' = [send_attempts EXCEPT ![t] = 0]
    /\ recv_attempts' = [recv_attempts EXCEPT ![t] = 0]
    /\ response' = [response EXCEPT ![t] = NoResponse]
    /\ result' = [result EXCEPT ![t] = NoResult]
    /\ UNCHANGED <<connected, socket, lock>>
    /\ UNCHANGED <<subVars, libVars>>

(***************************************************************************)
(* JsonRpcClient.connect and JsonRpcClient.disconnect, callable from any   *)
(* thread at any time: neither takes the lock.                             *)
(***************************************************************************)
connect ==
    /\ ConnectEffect
    /\ UNCHANGED <<lock, pc, phase, batch_list, chunk_size, invoke_retry, idx,
                   response_batch, msg, retry, retry_left, send_attempts,
                   recv_attempts, response, result>>
    /\ UNCHANGED <<subVars, libVars>>

disconnect ==
    /\ connected
    /\ DisconnectEffect
    /\ UNCHANGED <<lock, pc, phase, batch_list, chunk_size, invoke_retry, idx,
                   response_batch, msg, retry, retry_left, send_attempts,
                   recv_attempts, response, result>>
    /\ UNCHANGED <<subVars, libVars>>

NextRpc ==
    \/ connect
    \/ disconnect
    \/ \E t \in Threads :
          \/ \E s \in MsgSizes : add(t, s)
          \/ \E r \in Retries : invoke_rpc_method(t, r)
          \/ \E c \in ChunkSizes, r \in Retries : invoke(t, c, r)
          \/ invoke_loop(t)
          \/ send_msg(t)
          \/ send_ok(t)
          \/ send_again(t)
          \/ recv_ok(t)
          \/ recv_again(t)
          \/ zmq_error(t)
          \/ keyboard_interrupt(t)
          \/ process_reply(t)
          \/ return(t)

(***************************************************************************)
(* Part II: the asynchronous subscriber.                                   *)
(***************************************************************************)
\* random.getrandbits(32), cut down to two keys.
Keys == {1, 2}

\* The "name" tags __dispatch tells apart, and one it does not know.
Names == {"trex-global", "trex-event", "trex-barrier", "flow_stats",
          "latency_stats", "other"}

\* The tags whose raw_snapshot entries are followed: one the dispatch knows
\* and one it does not; and the data their messages come with.
SnapshotTags == {"trex-global", "other"}
SnapshotData(n) == IF n = "trex-global" THEN {1, 2} ELSE {1}

\* A dict, and d[k] = v on it.
EmptyDict == <<>>
Put(d, k, v) == [x \in (DOMAIN d) \cup {k} |-> IF x = k THEN v ELSE d[x]]

\* What socket.recv may return: bytes that line.decode() rejects, text that
\* json.loads (or the msg[...] lookups) rejects, or a telemetry message; a
\* barrier message carries a key as its type.
Messages ==
    {[kind |-> "undecodable", name |-> "", type |-> 0, data |-> 0],
     [kind |-> "badjson", name |-> "", type |-> 0, data |-> 0]}
    \cup {[kind |-> "msg", name |-> n, type |-> 0, data |-> 0] :
             n \in Names \ ({"trex-barrier"} \cup SnapshotTags)}
    \cup UNION {{[kind |-> "msg", name |-> n, type |-> 0, data |-> v] :
                    v \in SnapshotData(n)} : n \in SnapshotTags}
    \cup {[kind |-> "msg", name |-> "trex-barrier", type |-> k, data |-> 0] :
             k \in Keys}

NoLine == [kind |-> "none", name |-> "", type |-> 0, data |-> 0]
None == [key |-> 0, ack |-> FALSE]

\* CTRexAsyncClient.__init__
InitSub ==
    /\ t_state = "DEAD"
    /\ async_connected = FALSE
    /\ context = "none"
    /\ async_barrier = None
    /\ last_data_recv_ts = "zero"
    /\ monitor = "AWAKE"
    /\ thr = "none"
    /\ got_data = FALSE
    /\ line = NoLine
    /\ recv_state = "none"
    /\ calls = <<>>
    /\ last_note = "none"
    /\ ctl = "idle"
    /\ ctl_op = "none"
    /\ ctl_result = "none"
    /\ sub_socket = "none"
    /\ signalled = FALSE
    /\ orphans = 0
    /\ clock = 0
    /\ expr = 0
    /\ publishes = 0
    /\ raw_snapshot = EmptyDict

\* A dispatch whose else branch hands unknown tags to the event handler.
HandlerElseEvent(n) ==
    IF n = "trex-global" THEN <<"on_async_stats_update">>
    ELSE IF n = "trex-barrier" THEN <<"handle_async_barrier">>
    ELSE IF n = "flow_stats" THEN <<"on_async_rx_stats_event">>
    ELSE IF n = "latency_stats" THEN <<"on_async_latency_stats_event">>
    ELSE <<"on_async_event">>

\* The handler __dispatch routes a message named n to.
Handler(n) ==
    IF n = "trex-global" THEN <<"on_async_stats_update">>
    ELSE IF n = "trex-event" THEN <<"on_async_event">>
    ELSE IF n = "trex-barrier" THEN <<"handle_async_barrier">>
    ELSE IF n = "flow_stats" THEN <<"on_async_rx_stats_event">>
    ELSE IF n = "latency_stats" THEN <<"on_async_latency_stats_event">>
    ELSE <<>>

(***************************************************************************)
(* The background thread: _run_safe and _run.                              *)
(***************************************************************************)
\* A crash that leaves the socket open.
LeaveOpenOnCrash == "open"

\* The "finally" clause of _run_safe when an exception went through it.
CloseOnCrash == "closed"

\* _run returned: the "finally" clause of _run_safe closes the socket and the
\* thread ends.
RunSafeReturn ==
    /\ thr' = "exited"
    /\ sub_socket' = "closed"
    /\ UNCHANGED <<signalled, orphans>>

\* _run raised an Exception after making the handler calls c: on_async_crash,
\* os.killpg, then the print whose str + Exception raises TypeError out of
\* the except clause, through the "finally" clause.
RunSafeExcept(c) ==
    /\ thr' = "crashed"
    /\ calls' = c \o <<"on_async_crash">>
    /\ signalled' = TRUE
    /\ sub_socket' = CloseOnCrash
    /\ UNCHANGED orphans

\* _run_safe up to the loop of _run.  On a context that is already terminated
\* the socket options and socket.connect, which stand outside the try block,
\* may raise: the thread then ends without closing its socket.
thread_start ==
    /\ thr = "start"
    /\ \/ /\ context = "terminated"
          /\ thr' = "died"
          /\ UNCHANGED <<monitor, got_data, last_note>>
       \/ /\ thr' = "loop"
          /\ monitor' = "AWAKE"
          /\ got_data' = FALSE
          /\ last_note' = "none"
    /\ calls' = <<>>
    /\ UNCHANGED <<t_state, async_connected, context, async_barrier,
                   last_data_recv_ts, line, ctl, ctl_op, ctl_result>>
    /\ UNCHANGED <<recv_state, rpcVars, libVars, raw_snapshot, barVars, crashVars>>

\* The condition of "while self.t_state != self.THREAD_STATE_DEAD".
LoopCondition == t_state # "DEAD"

\* "assert self.state == self.STATE_AWAKE" of AsyncUtil.__enter__ and
\* "assert self.state == self.STATE_SLEEP" of AsyncUtil.__exit__; a failed
\* assert is an exception _run_safe reports as a crash.
EnterAssert == monitor = "AWAKE"
ExitAssert == monitor = "SLEEP"

\* An __exit__ that leaves the monitor asleep.
ExitStateAsleep == "SLEEP"

\* The state AsyncUtil.__exit__ writes.
ExitState == "AWAKE"

\* The while condition; then "with self.monitor" is entered and socket.recv
\* blocks, or the loop is left and _run_safe closes the socket.
thread_loop ==
    /\ thr = "loop"
    /\ IF LoopCondition
       THEN IF EnterAssert
            THEN /\ thr' = "recv"
                 /\ monitor' = "SLEEP"
                 /\ calls' = <<>>
                 /\ UNCHANGED crashVars
            ELSE /\ RunSafeExcept(<<>>)
                 /\ UNCHANGED monitor
       ELSE /\ RunSafeReturn
            /\ calls' = <<>>
            /\ UNCHANGED monitor
    /\ UNCHANGED <<t_state, async_connected, context, async_barrier,
                   last_data_recv_ts, got_data, line, last_note, ctl, ctl_op,
                   ctl_result>>
    /\ UNCHANGED <<recv_state, rpcVars, libVars, raw_snapshot, barVars>>

\* Treating the cancellation as a receive timeout.
CancelledNever == FALSE

\* socket.recv fails with zmq.ContextTerminated instead of zmq.Again or a
\* message: context.term() has been called.
Cancelled == context = "terminated"

\* socket.recv returns the message m.
thread_recv(m) ==
    /\ thr = "recv"
    /\ ~Cancelled
    /\ IF ExitAssert
       THEN /\ line' = m
            /\ recv_state' = t_state
            /\ monitor' = ExitState
            /\ thr' = "got"
            /\ UNCHANGED <<calls, crashVars>>
       ELSE /\ RunSafeExcept(<<>>)
            /\ UNCHANGED <<line, recv_state, monitor>>
    /\ UNCHANGED <<t_state, async_connected, context, async_barrier,
                   last_data_recv_ts, got_data, last_note, ctl, ctl_op,
                   ctl_result>>
    /\ UNCHANGED <<rpcVars, libVars, raw_snapshot, barVars>>

\* Whether a receive timeout fires on_async_timeout.
TimeoutFires == got_data

\* socket.recv raises zmq.Again.
thread_timeout ==
    /\ thr = "recv"
    /\ ~Cancelled
    /\ IF ExitAssert
       THEN /\ monitor' = ExitState
            /\ IF TimeoutFires
               THEN /\ calls' = <<"on_async_timeout">>
                    /\ got_data' = FALSE
                    /\ last_note' = "timeout"
               ELSE UNCHANGED <<calls, got_data, last_note>>
            /\ thr' = "loop"
            /\ UNCHANGED crashVars
       ELSE /\ RunSafeExcept(<<>>)
            /\ UNCHANGED <<monitor, got_data, last_note>>
    /\ UNCHANGED <<t_state, async_connected, context, async_barrier,
                   last_data_recv_ts, line, ctl, ctl_op, ctl_result>>
    /\ UNCHANGED <<recv_state, rpcVars, libVars, raw_snapshot, barVars>>

\* socket.recv raises zmq.ContextTerminated: the assert, then break; a failed
\* assert is an exception _run_safe reports as a crash.
thread_terminated ==
    /\ thr = "recv"
    /\ Cancelled
    /\ monitor' = IF ExitAssert THEN ExitState ELSE monitor
    /\ recv_state' = "terminated"
    /\ IF ExitAssert /\ t_state # "ACTIVE"
       THEN /\ RunSafeReturn
            /\ calls' = <<>>
       ELSE RunSafeExcept(<<>>)
    /\ UNCHANGED <<t_state, async_connected, context, async_barrier,
                   last_data_recv_ts, got_data, line, last_note, ctl, ctl_op,
                   ctl_result>>
    /\ UNCHANGED <<rpcVars, libVars, raw_snapshot, barVars>>

\* The test "if self.t_state == self.THREAD_STATE_ZOMBIE" after a receive.
Discards == t_state = "ZOMBIE"

\* A level-triggered alive notification.
AliveAlways == TRUE

\* Whether a processed message fires on_async_alive.
AliveFires == ~got_data

\* The rest of the loop body for the received line: the zombie test, the
\* decoding, the alive notification, json.loads and __dispatch.  For a
\* trex-barrier message handle_async_barrier reads self.async_barrier["key"]
\* here and stores the ack in a later step.
thread_process ==
    /\ thr = "got"
    /\ last_data_recv_ts' = "time"
    /\ recv_state' = "none"
    /\ UNCHANGED async_barrier
    /\ raw_snapshot' = IF ~Discards /\ line.kind = "msg"
                          /\ line.name \in SnapshotTags
                       THEN Put(raw_snapshot, line.name, line.data)
                       ELSE raw_snapshot
    /\ IF Discards
       THEN /\ thr' = "loop"
            /\ calls' = <<>>
            /\ line' = NoLine
            /\ UNCHANGED <<got_data, last_note, crashVars>>
       ELSE IF line.kind = "undecodable"
            THEN /\ RunSafeExcept(<<>>)
                 /\ line' = NoLine
                 /\ UNCHANGED <<got_data, last_note>>
            ELSE LET alive == IF AliveFires THEN <<"on_async_alive">> ELSE <<>>
                 IN /\ got_data' = TRUE
                    /\ last_note' = IF AliveFires THEN "alive" ELSE last_note
                    /\ IF line.kind = "badjson"
                       THEN /\ RunSafeExcept(alive)
                            /\ line' = NoLine
                       ELSE IF line.name = "trex-barrier" /\ async_barrier = None
                            THEN /\ RunSafeExcept(alive \o Handler(line.name))
                                 /\ line' = NoLine
                            ELSE /\ calls' = alive \o Handler(line.name)
                                 /\ UNCHANGED crashVars
                                 /\ IF /\ line.name = "trex-barrier"
                                       /\ async_barrier.key = line.type
                                    THEN /\ thr' = "ack"
                                         /\ UNCHANGED line
                                    ELSE /\ thr' = "loop"
                                         /\ line' = NoLine
    /\ UNCHANGED <<t_state, async_connected, context, monitor, ctl, ctl_op,
                   ctl_result>>
    /\ UNCHANGED <<rpcVars, libVars, barVars>>

\* handle_async_barrier, second half: self.async_barrier["ack"] = True, on
\* the token self.async_barrier refers to now.
thread_ack ==
    /\ thr = "ack"
    /\ async_barrier' = [async_barrier EXCEPT !.ack = TRUE]
    /\ thr' = "loop"
    /\ line' = NoLine
    /\ calls' = <<>>
    /\ UNCHANGED <<t_state, async_connected, context, last_data_recv_ts, monitor,
                   got_data, recv_state, last_note, ctl, ctl_op, ctl_result>>
    /\ UNCHANGED <<rpcVars, libVars, raw_snapshot, barVars, crashVars>>

ThreadStep ==
    \/ thread_start
    \/ thread_loop
    \/ \E m \in Messages : thread_recv(m)
    \/ thread_timeout
    \/ thread_terminated
    \/ thread_process
    \/ thread_ack

(***************************************************************************)
(* The controlling thread: connect, disconnect, set_as_zombie, barrier.    *)
(***************************************************************************)
\* disconnect() marking the thread a zombie instead.
MarkZombie == "ZOMBIE"

\* A disconnect() that terminates the context of a thread still marked as
\* running.
MarkActive == "ACTIVE"

\* The state disconnect() writes before it terminates the context.
MarkForJoin == "DEAD"

\* connect() starting its thread without disconnecting first.
ConnectedForDisconnectOnly(op) == op = "disconnect" /\ async_connected

\* "if self.connected: self.disconnect()" of connect() and "if not
\* self.connected: return" of disconnect(): whether the call op goes on to
\* end the running thread.
Connected(op) == async_connected

\* disconnect() up to "self.t_state = self.THREAD_STATE_DEAD"; op is the API
\* call it is made from.
BeginDisconnect(op) ==
    /\ ctl_op' = op
    /\ IF Connected(op)
       THEN /\ t_state' = MarkForJoin
            /\ ctl' = "term"
       ELSE /\ ctl' = IF op = "connect" THEN "start" ELSE "idle"
            /\ UNCHANGED t_state
    /\ ctl_result' = IF ~async_connected /\ op = "disconnect" THEN "ok" ELSE "none"

\* CTRexAsyncClient.disconnect, first step.
sub_disconnect ==
    /\ ctl = "idle"
    /\ BeginDisconnect("disconnect")
    /\ UNCHANGED <<async_connected, context, async_barrier, last_data_recv_ts,
                   monitor, thr, got_data, line, calls, last_note>>
    /\ UNCHANGED <<recv_state, rpcVars, libVars, raw_snapshot, barVars, crashVars>>

\* CTRexAsyncClient.connect, first step: "if self.connected: self.disconnect()".
sub_connect ==
    /\ ctl = "idle"
    /\ BeginDisconnect("connect")
    /\ UNCHANGED <<async_connected, context, async_barrier, last_data_recv_ts,
                   monitor, thr, got_data, line, calls, last_note>>
    /\ UNCHANGED <<recv_state, rpcVars, libVars, raw_snapshot, barVars, crashVars>>

\* self.context.term() is called: every blocking call on the context's
\* sockets now fails with ContextTerminated.
disconnect_term ==
    /\ ctl = "term"
    /\ context' = "terminated"
    /\ ctl' = "join"
    /\ UNCHANGED <<t_state, async_connected, async_barrier, last_data_recv_ts,
                   monitor, thr, got_data, line, calls, last_note, ctl_op,
                   ctl_result>>
    /\ UNCHANGED <<recv_state, rpcVars, libVars, raw_snapshot, barVars, crashVars>>

\* Returning without waiting for the thread.
JoinableAlways == TRUE

\* What context.term() and t.join() wait for: the thread has closed its
\* socket and ended.
Joinable == thr \in {"exited", "crashed"}

\* context.term() and self.t.join() return; "self.connected = False".
disconnect_join ==
    /\ ctl = "join"
    /\ Joinable
    /\ async_connected' = FALSE
    /\ IF ctl_op = "connect"
       THEN /\ ctl' = "start"
            /\ UNCHANGED ctl_result
       ELSE /\ ctl' = "idle"
            /\ ctl_result' = "ok"
    /\ UNCHANGED <<t_state, context, async_barrier, last_data_recv_ts, monitor,
                   thr, got_data, line, calls, last_note, ctl_op>>
    /\ UNCHANGED <<recv_state, rpcVars, libVars, raw_snapshot, barVars, crashVars>>

\* threading.Thread.is_alive of the thread self.t refers to.
Alive == thr \in {"start", "loop", "recv", "got", "ack"}

\* connect(): a new context and socket, t_state = ACTIVE, the thread is
\* started, "self.connected = True".
connect_start ==
    /\ ctl = "start"
    /\ context' = "open"
    /\ sub_socket' = "open"
    /\ t_state' = "ACTIVE"
    /\ thr' = "start"
    /\ orphans' = IF Alive THEN orphans + 1 ELSE orphans
    /\ async_connected' = TRUE
    /\ ctl' = "barrier"
    /\ UNCHANGED <<async_barrier, last_data_recv_ts, monitor, got_data, line,
                   calls, last_note, ctl_op, ctl_result, signalled>>
    /\ UNCHANGED <<recv_state, rpcVars, libVars, raw_snapshot, barVars>>

\* CTRexAsyncClient.barrier called by the user.
sub_barrier ==
    /\ ctl = "idle"
    /\ ctl_op' = "barrier"
    /\ ctl_result' = "none"
    /\ ctl' = "barrier"
    /\ UNCHANGED <<t_state, async_connected, context, async_barrier,
                   last_data_recv_ts, monitor, thr, got_data, line, calls,
                   last_note>>
    /\ UNCHANGED <<recv_state, rpcVars, libVars, raw_snapshot, barVars, crashVars>>

\* The timeout argument of barrier(), in fast loops.
Timeouts == 0..MaxTimeout

\* time.time() after d more units; past every deadline all times are alike.
Later(d) == IF clock + d > MaxTimeout THEN MaxTimeout + 1 ELSE clock + d

\* barrier(): a new token with the random key k, and the deadline expr.
barrier_token(k, timeout) ==
    /\ ctl = "barrier"
    /\ async_barrier' = [key |-> k, ack |-> FALSE]
    /\ clock' = 0
    /\ expr' = timeout
    /\ publishes' = 0
    /\ ctl' = "publish"
    /\ UNCHANGED <<t_state, async_connected, context, last_data_recv_ts, monitor,
                   thr, got_data, line, calls, last_note, ctl_op, ctl_result>>
    /\ UNCHANGED <<recv_state, rpcVars, libVars, raw_snapshot, crashVars>>

\* A connect() that lets the TrexError of its barrier() through.
SwallowedNever(op) == FALSE

\* "try: self.barrier() except TrexError: pass" of connect(): whether the
\* outcome of the barrier() made by the API call op is dropped.
Swallowed(op) == op = "connect"

\* barrier() ends with outcome r; connect() swallows its TrexError.
BarrierEnds(r) ==
    /\ ctl' = "idle"
    /\ ctl_result' = IF Swallowed(ctl_op) THEN "ok" ELSE r

\* A loop test that lets barrier() return before the ack.
BarrierAckedAlways == TRUE

\* The negation of "while not self.async_barrier['ack']".
BarrierAcked == async_barrier.ack

\* "while not self.async_barrier['ack']" and the publish_now it transmits,
\* which takes d units: rc is truthy, falsy, or transmit raises TrexError.
barrier_publish(rc, d) ==
    /\ ctl = "publish"
    /\ IF BarrierAcked
       THEN /\ BarrierEnds("ok")
            /\ UNCHANGED <<clock, publishes>>
       ELSE /\ publishes' = publishes + 1
            /\ clock' = Later(d)
            /\ IF rc = "truthy"
               THEN /\ ctl' = "spin"
                    /\ UNCHANGED ctl_result
               ELSE BarrierEnds(rc)
    /\ UNCHANGED <<t_state, async_connected, context, async_barrier,
                   last_data_recv_ts, monitor, thr, got_data, line, calls,
                   last_note, ctl_op, expr>>
    /\ UNCHANGED <<recv_state, rpcVars, libVars, raw_snapshot, crashVars>>

\* A deadline test that fires at the deadline itself.
ExpiredAt(now) == now >= expr

\* "if time.time() > expr"
Expired(now) == now > expr

\* The time the fast loop may take: it breaks as soon as it sees the ack, and
\* otherwise sleeps its 100 times 1 ms, or longer.
SpinTimes == IF async_barrier.ack THEN {0, 1} ELSE {1, 2}

\* The fast loop, taking d units, then the deadline test.
barrier_spin(d) ==
    /\ ctl = "spin"
    /\ d \in SpinTimes
    /\ clock' = Later(d)
    /\ IF Expired(clock')
       THEN BarrierEnds("timeout")
       ELSE /\ ctl' = "publish"
            /\ UNCHANGED ctl_result
    /\ UNCHANGED <<t_state, async_connected, context, async_barrier,
                   last_data_recv_ts, monitor, thr, got_data, line, calls,
                   last_note, ctl_op, expr, publishes>>
    /\ UNCHANGED <<recv_state, rpcVars, libVars, raw_snapshot, crashVars>>

\* The state set_as_zombie writes.
ZombieState == "ZOMBIE"

\* CTRexAsyncClient.set_as_zombie
set_as_zombie ==
    /\ ctl = "idle"
    /\ ctl_op' = "set_as_zombie"
    /\ ctl_result' = "ok"
    /\ last_data_recv_ts' = "None"
    /\ t_state' = ZombieState
    /\ UNCHANGED <<async_connected, context, async_barrier, monitor, thr,
                   got_data, line, calls, last_note, ctl>>
    /\ UNCHANGED <<recv_state, rpcVars, libVars, raw_snapshot, barVars, crashVars>>

\* The steps of a barrier() that has been called.
BarrierStep ==
    \/ \E k \in Keys, timeout \in Timeouts : barrier_token(k, timeout)
    \/ \E rc \in {"truthy", "falsy", "TrexError"}, d \in {0, 1} :
          barrier_publish(rc, d)
    \/ \E d \in 0..2 : barrier_spin(d)

ControlStep ==
    \/ sub_connect
    \/ sub_disconnect
    \/ disconnect_term
    \/ disconnect_join
    \/ connect_start
    \/ sub_barrier
    \/ BarrierStep
    \/ set_as_zombie

(***************************************************************************)
(* Part III: CTRexAsyncStatsManager.  A snapshot is a dict, kept as the    *)
(* sequence of its items in iteration order; a key is a sequence of        *)
(* characters.                                                             *)
(***************************************************************************)
\* The characters keys are made of: a letter, the dash, a digit the pattern
\* [0-8] accepts and a digit it does not accept.
Chars == {"f", "-", "1", "9"}
PortDigits == {"1"}
Digits == {"1", "9"}

KeyLengths == 1..4
SnapshotKeys == UNION {[1..n -> Chars] : n \in KeyLengths}

\* The snapshots update is tried on: one or two items with distinct keys;
\* the value of an item tells the items apart.
Snapshots ==
    {<<[key |-> k, value |-> 1]>> : k \in SnapshotKeys}
    \cup {<<[key |-> p[1], value |-> 1], [key |-> p[2], value |-> 2]>> :
             p \in {q \in SnapshotKeys \X SnapshotKeys : q[1] # q[2]}}

\* The positions at which "\-([0-8])" matches in key.
DashDigit(key) ==
    {i \in 1..(Len(key) - 1) : key[i] = "-" /\ key[i + 1] \in PortDigits}

\* re.search(r"(.*)\-([0-8])", key): the search succeeds from the start of
\* the key whenever it succeeds, and the greedy (.*) extends to the last
\* position at which the rest of the pattern matches.
re_search(key) ==
    IF DashDigit(key) = {}
    THEN [matched |-> FALSE, field_name |-> <<>>, port_id |-> ""]
    ELSE LET i == CHOOSE j \in DashDigit(key) : \A h \in DashDigit(key) : h <= j
         IN [matched |-> TRUE, field_name |-> SubSeq(key, 1, i - 1),
             port_id |-> key[i + 1]]

\* The loop of __handle_snapshot over the items from position i on.
RECURSIVE handle_snapshot(_, _, _, _)
handle_snapshot(snapshot, i, general_stats, port_stats) ==
    IF i > Len(snapshot)
    THEN [general |-> general_stats, ports |-> port_stats]
    ELSE LET key == snapshot[i].key
             value == snapshot[i].value
             m == re_search(key)
         IN IF m.matched
            THEN LET old == IF m.port_id \in DOMAIN port_stats
                            THEN port_stats[m.port_id] ELSE EmptyDict
                 IN handle_snapshot(snapshot, i + 1, general_stats,
                        Put(port_stats, m.port_id, Put(old, m.field_name, value)))
            ELSE handle_snapshot(snapshot, i + 1, Put(general_stats, key, value),
                                 port_stats)

\* CTRexAsyncStatsManager.__init__, no snapshot handed over yet.
NoUpdate == [snapshot |-> <<>>, general |-> EmptyDict, ports |-> EmptyDict,
             done |-> FALSE]

\* CTRexAsyncStatsManager.update(snapshot): what the general object and the
\* port objects are updated with.
update ==
    /\ ~mgr.done
    /\ mgr.snapshot # <<>>
    /\ LET r == handle_snapshot(mgr.snapshot, 1, EmptyDict, EmptyDict)
       IN mgr' = [mgr EXCEPT !.general = r.general, !.ports = r.ports,
                             !.done = TRUE]
    /\ UNCHANGED <<rpcVars, subVars, scope, util, trex_port, zip>>

(***************************************************************************)
(* Part III: CTRexAsyncStats, the object behind general_stats and behind   *)
(* every entry of port_stats.  A snapshot is known by its name; "{}" is    *)
(* the empty dict of __init__ and "None" the missing ref_point.  The       *)
(* fields first and last record the first and the latest snapshot update   *)
(* was called with.                                                        *)
(***************************************************************************)
Scopes == {"general", "port"}
SnapshotNames == {"s1", "s2", "s3"}

\* CTRexAsyncStats.__init__ of both objects.
InitScope ==
    [o \in Scopes |->
        [ref_point |-> "None", current |-> "{}", first |-> "None",
         last |-> "None"]]

\* An update that sets the reference point every time.
RefPointUnsetAlways(o) == TRUE

\* "if self.ref_point is None"
RefPointUnset(o) == scope[o].ref_point = "None"

\* CTRexAsyncStats.update(snapshot)
stats_update(o, sn) ==
    /\ scope' = [scope EXCEPT
                    ![o].current = sn,
                    ![o].ref_point = IF RefPointUnset(o) THEN sn ELSE @,
                    ![o].first = IF @ = "None" THEN sn ELSE @,
                    ![o].last = sn]
    /\ UNCHANGED <<rpcVars, subVars, mgr, util, trex_port, zip>>

\* CTRexAsyncStats.clear()
stats_clear(o) ==
    /\ scope' = [scope EXCEPT ![o].ref_point = scope[o].current]
    /\ UNCHANGED <<rpcVars, subVars, mgr, util, trex_port, zip>>

(***************************************************************************)
(* Part III: AsyncUtil.  Time is counted in half seconds and kept relative *)
(* to the readings the object has stored: age is time.time() minus         *)
(* interval["ts"], asleep is time.time() minus sleep_start_ts while the    *)
(* state is SLEEP.  cpu_util and bps are exact fractions <<n, d>> in       *)
(* lowest terms.  pre records the object as the latest _tick found it and  *)
(* folds counts the ticks that closed an interval.                         *)
(***************************************************************************)
\* "if ts < 1", in half seconds.
OneSecond == 2
Ages == 0..3
FoldCounts == 0..2
MessageLengths == {1, 2}
BitCounts == 0..32

RECURSIVE Gcd(_, _)
Gcd(a, b) == IF b = 0 THEN a ELSE Gcd(b, a % b)
Frac(n, d) == LET g == Gcd(n, d) IN <<n \div g, d \div g>>
FracAdd(a, b) == Frac(a[1] * b[2] + b[1] * a[2], a[2] * b[2])
FracMul(a, b) == Frac(a[1] * b[1], a[2] * b[2])

\* A moving average that weighs the new sample 0.75.
SmoothSwapped(old, new) ==
    FracAdd(FracMul(old, Frac(1, 4)), FracMul(new, Frac(3, 4)))

\* "old * 0.75 + new * 0.25"
Smooth(old, new) ==
    FracAdd(FracMul(old, Frac(3, 4)), FracMul(new, Frac(1, 4)))

\* The fields of the object a tick reads.
Seen(u) ==
    [ticked |-> TRUE, state |-> u.state, ts |-> u.age, asleep |-> u.asleep,
     total_sleep |-> u.total_sleep, total_bits |-> u.total_bits,
     cpu_util |-> u.cpu_util, bps |-> u.bps]

\* AsyncUtil._tick()
tick(u) ==
    LET ts == u.age
        total_sleep == IF u.state = "SLEEP" THEN u.total_sleep + u.asleep
                       ELSE u.total_sleep
    IN IF ts < OneSecond
       THEN [u EXCEPT !.pre = Seen(u)]
       ELSE [u EXCEPT
               !.pre = Seen(u),
               !.asleep = 0,
               !.cpu_util = IF total_sleep > 0
                            THEN Smooth(@, Frac(ts - total_sleep, ts))
                            ELSE @,
               !.total_sleep = 0,
               !.bps = IF u.total_bits > 0
                       THEN Smooth(@, Frac(u.total_bits * OneSecond, ts))
                       ELSE @,
               !.total_bits = 0,
               !.age = 0,
               !.folds = @ + 1]

\* AsyncUtil.__init__ / reset()
InitUtil ==
    [state |-> "AWAKE", age |-> 0, asleep |-> 0, total_sleep |-> 0,
     total_bits |-> 0, cpu_util |-> Frac(0, 1), bps |-> Frac(0, 1),
     folds |-> 0,
     pre |-> [ticked |-> FALSE, state |-> "AWAKE", ts |-> 0, asleep |-> 0,
              total_sleep |-> 0, total_bits |-> 0, cpu_util |-> Frac(0, 1),
              bps |-> Frac(0, 1)]]

UtilRest == <<rpcVars, subVars, mgr, scope, trex_port, zip>>

\* Half a second passes.
util_time ==
    /\ util.age + 1 \in Ages
    /\ util' = [util EXCEPT !.age = @ + 1,
                            !.asleep = IF util.state = "SLEEP" THEN @ + 1 ELSE @]
    /\ UNCHANGED UtilRest

\* AsyncUtil.__enter__()
util_enter ==
    /\ util.state = "AWAKE"
    /\ util' = [util EXCEPT !.state = "SLEEP", !.asleep = 0]
    /\ UNCHANGED UtilRest

\* AsyncUtil.__exit__()
util_exit ==
    /\ util.state = "SLEEP"
    /\ util.folds + 1 \in FoldCounts
    /\ util' = tick([util EXCEPT !.state = "AWAKE",
                                 !.total_sleep = @ + util.asleep,
                                 !.asleep = 0])
    /\ UNCHANGED UtilRest

\* AsyncUtil.on_recv_msg(message), called by _run between two receives.
util_on_recv_msg(n) ==
    /\ util.state = "AWAKE"
    /\ util.folds + 1 \in FoldCounts
    /\ util.total_bits + n * 8 \in BitCounts
    /\ util' = tick([util EXCEPT !.total_bits = @ + n * 8])
    /\ UNCHANGED UtilRest

\* AsyncUtil.get_cpu_util() and get_bps(): a tick, then the value is read.
util_get ==
    /\ util.folds + 1 \in FoldCounts
    /\ util' = tick(util)
    /\ UNCHANGED UtilRest

NextUtil ==
    \/ util_time
    \/ util_enter
    \/ util_exit
    \/ \E n \in MessageLengths : util_on_recv_msg(n)
    \/ util_get
(***************************************************************************)
(* Part III: the statistics of a TrexPort.  A dict is a function from      *)
(* counter names to numbers and <<>> stands for None.  server holds the    *)
(* counters the server would report, aliased tells that self.statistics    *)
(* and self.base_stats are one dict object, captured and xcaptured record  *)
(* what the server reported to the latest clear_stats, and op, returned    *)
(* and raised describe the latest call.                                    *)
(***************************************************************************)
\* Counter names, as the characters they are spelled with.
opackets == <<"o", "p", "a", "c", "k", "e", "t", "s">>
tx_pps == <<"t", "x", "_", "p", "p", "s">>
tx_good_packets == <<"t", "x", "_", "g", "o", "o", "d", "_", "p", "a", "c",
                     "k", "e", "t", "s">>

\* The names get_port_stats answers with, and those of get_port_xstats_names.
StatNames == {opackets, tx_pps}
XstatNames == {tx_good_packets}

PacketCounts == 0..2
Rates == {0, 5}

\* A test on the last letter only.
endswith_s(stat) == Len(stat) >= 1 /\ stat[Len(stat)] = "s"

\* stat.endswith("ps")
endswith_ps(stat) ==
    /\ Len(stat) >= 2
    /\ stat[Len(stat) - 1] = "p"
    /\ stat[Len(stat)] = "s"

\* self.statistics[stat] = value, seen through both names of the dict.
SetStatistic(port, stat, value) ==
    LET d == Put(port.statistics, stat, value)
    IN [port EXCEPT !.statistics = d,
                    !.base_stats = IF port.aliased THEN d ELSE @]

\* The loop of read_stats over the names not yet visited.
RECURSIVE adjust_stats(_, _)
adjust_stats(port, todo) ==
    IF todo = {} THEN port
    ELSE LET stat == CHOOSE n \in todo : TRUE
             value == IF endswith_ps(stat) THEN port.statistics[stat]
                      ELSE port.statistics[stat] - port.base_stats[stat]
         IN adjust_stats(SetStatistic(port, stat, value), todo \ {stat})

\* The loop of read_xstats over the names not yet visited.
RECURSIVE adjust_xstats(_, _)
adjust_xstats(port, todo) ==
    IF todo = {} THEN port
    ELSE LET stat == CHOOSE n \in todo : TRUE
         IN adjust_xstats(
                SetStatistic(port, stat,
                             port.xstatistics[stat] - port.base_xstats[stat]),
                todo \ {stat})

\* TrexPort.__init__ (lines 116-120), the server's counters at zero.
InitPort ==
    [server |-> [n \in StatNames |-> 0],
     xserver |-> [n \in XstatNames |-> 0],
     stat_names |-> {}, base_stats |-> <<>>, base_xstats |-> <<>>,
     statistics |-> <<>>, xstatistics |-> <<>>, aliased |-> FALSE,
     cleared |-> FALSE, captured |-> <<>>, xcaptured |-> <<>>,
     op |-> "init", returned |-> <<>>, raised |-> "none"]

PortRest == <<rpcVars, subVars, mgr, scope, util, zip>>

\* The server sends or receives packets: counters grow, rates change.
port_traffic(n, x, r) ==
    /\ trex_port.server[opackets] + n \in PacketCounts
    /\ trex_port.xserver[tx_good_packets] + x \in PacketCounts
    /\ n + x > 0 \/ r # trex_port.server[tx_pps]
    /\ trex_port' =
          [trex_port EXCEPT
             !.server = [@ EXCEPT ![opackets] = @ + n, ![tx_pps] = r],
             !.xserver = [@ EXCEPT ![tx_good_packets] = @ + x],
             !.op = "traffic", !.returned = <<>>, !.raised = "none"]
    /\ UNCHANGED PortRest

\* TrexPort.clear_stats()
clear_stats ==
    /\ trex_port' =
          [trex_port EXCEPT
             !.stat_names = XstatNames,
             !.base_xstats = trex_port.xserver,
             !.base_stats = trex_port.server,
             !.statistics = trex_port.server,
             !.aliased = TRUE,
             !.xstatistics = trex_port.xserver,
             !.cleared = TRUE,
             !.captured = trex_port.server,
             !.xcaptured = trex_port.xserver,
             !.op = "clear_stats", !.returned = <<>>, !.raised = "none"]
    /\ UNCHANGED PortRest

\* TrexPort.read_stats(); with base_stats still None the first counter that
\* is to be adjusted raises TypeError.
read_stats ==
    /\ LET fresh == [trex_port EXCEPT !.statistics = trex_port.server,
                                      !.aliased = FALSE,
                                      !.op = "read_stats"]
       IN IF trex_port.cleared
          THEN LET done == adjust_stats(fresh, DOMAIN fresh.statistics)
               IN trex_port' = [done EXCEPT !.returned = done.statistics,
                                            !.raised = "none"]
          ELSE trex_port' = [fresh EXCEPT !.returned = <<>>,
                                          !.raised = "TypeError"]
    /\ UNCHANGED PortRest

\* TrexPort.read_xstats(); with stat_names still None line 280 raises
\* TypeError.
read_xstats ==
    /\ IF trex_port.cleared
       THEN LET fresh == [trex_port EXCEPT
                            !.xstatistics =
                                [n \in trex_port.stat_names |->
                                    trex_port.xserver[n]],
                            !.op = "read_xstats"]
                done == adjust_xstats(fresh, DOMAIN fresh.xstatistics)
            IN trex_port' = [done EXCEPT !.returned = done.xstatistics,
                                         !.raised = "none"]
       ELSE trex_port' = [trex_port EXCEPT !.op = "read_xstats",
                                           !.returned = <<>>,
                                           !.raised = "TypeError"]
    /\ UNCHANGED PortRest

NextPort ==
    \/ \E n \in {0, 1}, x \in {0, 1}, r \in Rates : port_traffic(n, x, r)
    \/ clear_stats
    \/ read_stats
    \/ read_xstats
(***************************************************************************)
(* Part III: the compression codec (ZippedMsg) and its use by __send_msg   *)
(* and by _run.  The codec follows the contract of the design document:    *)
(* a size threshold, a fixed tag in front of a compressed payload, and a   *)
(* body that either decompresses or is corrupt.  A payload is a sequence   *)
(* of bytes, Magic being the byte of the tag.  zip records the latest use: *)
(* op, the bytes it was given (input) and what it produced (output).       *)
(***************************************************************************)
Magic == "M"
Bytes == {Magic, "a", "b"}
PayloadLengths == 0..3
Payloads == UNION {[1..n -> Bytes] : n \in PayloadLengths}

\* The size above which a payload is compressed.
Threshold == 2

\* The body of a compressed payload: every byte replaced, then a check byte.
Swap(b) == IF b = "a" THEN "b" ELSE IF b = "b" THEN "a" ELSE b
CheckByte(P) == IF Len(P) % 2 = 0 THEN "a" ELSE "b"
Deflate(P) == [i \in 1..Len(P) |-> Swap(P[i])] \o <<CheckByte(P)>>

Bytes_(P) == [kind |-> "bytes", value |-> P]
None_ == [kind |-> "None", value |-> <<>>]
CorruptPayload == [kind |-> "CorruptPayload", value |-> <<>>]

check_threshold(P) == Len(P) > Threshold
compress(P) == <<Magic>> \o Deflate(P)
is_compressed(P) == Len(P) >= 1 /\ P[1] = Magic

\* decompress: nothing for a payload without the tag; the payload for a
\* body that Deflate produced; CorruptPayload for any other body.
decompress(W) ==
    IF ~is_compressed(W) THEN None_
    ELSE LET body == Tail(W)
             front == SubSeq(body, 1, Len(body) - 1)
             P == [i \in 1..Len(front) |-> Swap(front[i])]
         IN IF Len(body) >= 1 /\ body = Deflate(P)
            THEN Bytes_(P) ELSE CorruptPayload

\* What a peer can put on the wire: any short payload and any compressed one.
WireLengths == 0..4
Wire == UNION {[1..n -> Bytes] : n \in WireLengths}
           \cup {compress(P) : P \in Payloads}

\* A transport that compresses every request.
ZipAlways(buffer) == TRUE

\* "if self.zipper.check_threshold(buffer)"
ShouldZip(buffer) == check_threshold(buffer)

\* ZippedMsg() of the constructors; nothing sent or received yet.
InitZip == [op |-> "init", input |-> <<>>, output |-> None_,
            packed |-> <<>>]

ZipRest == <<rpcVars, subVars, mgr, scope, util, trex_port>>

\* The codec on its own: compress(P) and decompress of the result.
zip_roundtrip(P) ==
    /\ zip' = [op |-> "roundtrip", input |-> P,
               output |-> decompress(compress(P)), packed |-> compress(P)]
    /\ UNCHANGED ZipRest

\* __send_msg, lines 113-118: the buffer handed to send_raw_msg.
zip_send_msg(buffer) ==
    /\ zip' = [op |-> "send", input |-> buffer,
               output |-> Bytes_(IF ShouldZip(buffer) THEN compress(buffer)
                                 ELSE buffer),
               packed |-> <<>>]
    /\ UNCHANGED ZipRest

\* __send_msg, lines 120-123: the response handed on to decode(); an
\* empty response is returned as it is.
zip_recv_msg(reply) ==
    /\ zip' = [op |-> "recv", input |-> reply,
               output |-> IF reply = <<>> THEN Bytes_(reply)
                          ELSE IF is_compressed(reply)
                               THEN decompress(reply)
                               ELSE Bytes_(reply),
               packed |-> <<>>]
    /\ UNCHANGED ZipRest

\* _run, lines 260-263: the line handed on to decode().
zip_async_line(ln) ==
    /\ LET unzipped == decompress(ln)
       IN zip' = [op |-> "async", input |-> ln,
                  output |-> IF unzipped.kind = "CorruptPayload" THEN unzipped
                             ELSE IF unzipped.kind = "bytes"
                                     /\ unzipped.value # <<>>
                                  THEN unzipped
                                  ELSE Bytes_(ln),
                  packed |-> <<>>]
    /\ UNCHANGED ZipRest

NextZip ==
    \/ \E P \in Payloads : zip_roundtrip(P)
    \/ \E P \in Payloads : zip_send_msg(P)
    \/ \E W \in Wire : zip_recv_msg(W)
    \/ \E W \in Wire : zip_async_line(W)

\* The construction of the objects of Part III.
InitLib ==
    /\ mgr = NoUpdate
    /\ scope = InitScope
    /\ util = InitUtil
    /\ trex_port = InitPort
    /\ zip = InitZip

\* update on any snapshot.
InitStats ==
    /\ InitRpc
    /\ InitSub
    /\ \E sn \in Snapshots : mgr = [NoUpdate EXCEPT !.snapshot = sn]
    /\ scope = InitScope
    /\ util = InitUtil
    /\ trex_port = InitPort
    /\ zip = InitZip

NextStats == update

SpecStats == InitStats /\ [][NextStats]_vars

\* JsonRpcClient.__init__ and CTRexAsyncClient.__init__
Init == InitRpc /\ InitSub /\ InitLib

NextScope ==
    \/ \E o \in Scopes, sn \in SnapshotNames : stats_update(o, sn)
    \/ \E o \in Scopes : stats_clear(o)

SpecScope == Init /\ [][NextScope]_vars

SpecUtil == Init /\ [][NextUtil]_vars

SpecPort == Init /\ [][NextPort]_vars

SpecZip == Init /\ [][NextZip]_vars

NextSub ==
    \/ ThreadStep
    \/ ControlStep

SpecSub == Init /\ [][NextSub]_vars

\* The background thread is scheduled, and its receive returns within the
\* receive timeout.
SpecSubFair == SpecSub /\ WF_vars(ThreadStep)

\* The thread that called barrier() keeps running: transmit returns or
\* raises, and the sleeps of the fast loop end.
SpecBarrierFair == SpecSub /\ WF_vars(BarrierStep)

(***************************************************************************)
(* Reply validation on its own: the main thread has just received a reply  *)
(* to a single call or to an unchunked batch, and the reply is any frame   *)
(* built from AllBodies.                                                   *)
(***************************************************************************)
InitReplyRpc ==
    /\ connected = TRUE
    /\ socket = "ready"
    /\ lock = MainThread
    /\ pc = [t \in Threads |-> IF t = MainThread THEN "check" ELSE "idle"]
    /\ \E n \in 0..MaxBatch :
          /\ phase = [t \in Threads |->
                        IF t # MainThread THEN "none"
                        ELSE IF n = 0 THEN "call" ELSE "whole"]
          /\ batch_list = [t \in Threads |->
                             IF t = MainThread THEN [i \in 1..n |-> 1] ELSE <<>>]
          /\ msg = [t \in Threads |->
                      IF t # MainThread THEN <<>>
                      ELSE IF n = 0 THEN <<0>> ELSE [i \in 1..n |-> i]]
    /\ chunk_size = [t \in Threads |-> 0]
    /\ invoke_retry = [t \in Threads |-> 0]
    /\ idx = [t \in Threads |-> 0]
    /\ response_batch = [t \in Threads |-> <<>>]
    /\ \E r \in Retries :
          /\ retry = [t \in Threads |-> IF t = MainThread THEN r ELSE 0]
          /\ retry_left = [t \in Threads |-> IF t = MainThread THEN r ELSE 0]
    /\ send_attempts = [t \in Threads |-> IF t = MainThread THEN 1 ELSE 0]
    /\ recv_attempts = [t \in Threads |-> IF t = MainThread THEN 1 ELSE 0]
    /\ \E r \in Replies(msg[MainThread], AllBodies) :
          response = [t \in Threads |-> IF t = MainThread THEN r ELSE NoResponse]
    /\ result = [t \in Threads |-> NoResult]

NextReply ==
    \/ process_reply(MainThread)
    \/ return(MainThread)

InitReply == InitReplyRpc /\ InitSub /\ InitLib

SpecReply == InitReply /\ [][NextReply]_vars

Next == NextRpc

Spec == Init /\ [][Next]_vars

(***************************************************************************)
(* Properties of the JSON-RPC client.                                      *)
(***************************************************************************)
AllIds(t) == [i \in 1..Len(batch_list[t]) |-> i]

\* C1: a chunked invoke (chunk_size > 0) that returns normally returns one
\* response per request of the batch, in the order the requests were added.
C1_OneResponsePerRequest ==
    \A t \in Threads :
        (/\ pc[t] = "done"
         /\ batch_list[t] # <<>>
         /\ chunk_size[t] > 0
         /\ result[t].status = "ok")
        => result[t].val = AllIds(t)

InCriticalSection(t) == pc[t] \in {"send", "recv", "check"}

\* C2: at most one caller is between the start of its send and the end of
\* its receive, and that caller holds the lock; the others wait.
C2_OneOutstanding ==
    /\ Cardinality({t \in Threads : InCriticalSection(t)}) <= 1
    /\ \A t \in Threads : InCriticalSection(t) => lock = t

C2_Witness ==
    \E t, u \in Threads : t # u /\ pc[t] = "recv" /\ pc[u] = "lock"

\* C3: with retry budget N a send_msg never makes more than N+1 send or N+1
\* receive attempts; it fails with the send-failed (receive-failed) error
\* exactly on the (N+1)-th timed-out attempt, and that step leaves the
\* transport disconnected.
C3_RetryBudget ==
    /\ [](\A t \in Threads :
            /\ pc[t] = "send" => send_attempts[t] <= retry[t]
            /\ pc[t] = "recv" => recv_attempts[t] <= retry[t])
    /\ [][\A t \in Threads :
            /\ (pc[t] = "recv" /\ result'[t].status = "RecvFailed")
               => (recv_attempts'[t] = retry[t] + 1 /\ ~connected')
            /\ (pc[t] = "send" /\ result'[t].status = "SendFailed")
               => (send_attempts'[t] = retry[t] + 1 /\ ~connected')]_vars

C3_Witness ==
    \E t \in Threads :
        /\ pc[t] = "done"
        /\ result[t].status = "RecvFailed"
        /\ retry[t] >= 1
        /\ send_attempts[t] = 1
        /\ recv_attempts[t] = retry[t] + 1
        /\ ~connected

\* A response with the wrong protocol version, or with neither result nor
\* error.
IsMalformed(e) == e.jsonrpc # "2.0" \/ (~e.result /\ e.error = "absent")

\* A response of the right version that carries an error object.
CarriesError(e) == e.jsonrpc = "2.0" /\ e.error # "absent"

HasMalformed(r) ==
    r.kind = "json" /\ \E i \in 1..Len(r.elems) : IsMalformed(r.elems[i])

\* C4 as stated: a reply holding a malformed response, as the single response
\* or as any element of a batch reply, is rejected with the malformed-response
\* error.
C4_AlwaysMalformedError ==
    [][\A t \in Threads :
          (pc[t] = "check" /\ pc'[t] # "check" /\ HasMalformed(response[t]))
          => result'[t].status = "Malformed"]_vars

\* C4 as amended: a reply holding a malformed response is never returned as
\* a success: the call raises, and the error is the malformed-response error
\* unless an earlier element of the batch reply carries an error object, whose
\* failure is raised instead.
C4_NeverSuccess ==
    [][\A t \in Threads :
          (pc[t] = "check" /\ pc'[t] # "check" /\ response[t].kind = "json")
          => \A i \in 1..Len(response[t].elems) :
                IsMalformed(response[t].elems[i])
                => /\ pc'[t] = "done"
                   /\ result'[t].status \notin {"ok", "empty", "none"}
                   /\ (\A j \in 1..(i - 1) : ~CarriesError(response[t].elems[j]))
                      => result'[t].status = "Malformed"]_vars

C4_Witness ==
    /\ pc[MainThread] = "done"
    /\ response[MainThread].kind = "json"
    /\ Len(response[MainThread].elems) = 2
    /\ ~IsMalformed(response[MainThread].elems[1])
    /\ ~CarriesError(response[MainThread].elems[1])
    /\ IsMalformed(response[MainThread].elems[2])
    /\ result[MainThread].status = "Malformed"

\* C5: a call issued while the transport is not connected fails with the
\* not-connected error without touching the socket, and a request goes onto
\* the wire only while the transport is connected.
C5_NotConnected ==
    [][/\ \A t \in Threads :
             (pc[t] = "idle" /\ pc'[t] # "idle" /\ ~connected)
             => /\ pc'[t] = "done"
                /\ result'[t].status = "NotConnected"
                /\ socket' = socket
       /\ (socket # "sent" /\ socket' = "sent") => (connected /\ connected')]_vars

C5_Witness ==
    \E t \in Threads :
        /\ pc[t] = "done"
        /\ result[t].status = "NotConnected"
        /\ socket = "closed"
        /\ ~connected

Interrupted(t) ==
    pc[t] \in {"send", "recv"} /\ result'[t].status = "KeyboardInterrupt"

\* C6 as stated: when a KeyboardInterrupt propagates out of a send or a
\* receive, the transport is disconnected and its socket closed.
C6_InterruptDisconnects ==
    [][\A t \in Threads :
          Interrupted(t) => (~connected' /\ socket' = "closed")]_vars

\* C6 as amended: when a KeyboardInterrupt propagates out of a send or a
\* receive, the transport has been reconnected: it is connected, on a fresh
\* socket with no request outstanding.
C6_InterruptReconnects ==
    [][\A t \in Threads :
          Interrupted(t) => (connected' /\ socket' = "ready")]_vars

C6_Witness ==
    /\ pc[MainThread] = "done"
    /\ result[MainThread].status = "KeyboardInterrupt"
    /\ recv_attempts[MainThread] = 0
    /\ send_attempts[MainThread] = 1
    /\ connected
    /\ socket = "ready"
(***************************************************************************)
(* Properties of the asynchronous subscriber.                              *)
(***************************************************************************)
\* C7 as stated: t_state changes only from ACTIVE to ZOMBIE by
\* set_as_zombie, and from ACTIVE or ZOMBIE to DEAD by disconnect; DEAD is
\* never left.
C7_DeadIsTerminal ==
    [][t_state' # t_state
       => \/ /\ t_state = "ACTIVE"
             /\ t_state' = "ZOMBIE"
             /\ ctl_op' = "set_as_zombie"
          \/ /\ t_state \in {"ACTIVE", "ZOMBIE"}
             /\ t_state' = "DEAD"
             /\ ctl_op' \in {"disconnect", "connect"}]_vars

\* C7 as amended: t_state changes only to ZOMBIE by set_as_zombie (from any
\* state), to DEAD by disconnect on a connected subscriber (from ACTIVE or
\* ZOMBIE), and to ACTIVE by connect (from DEAD or ZOMBIE).
C7_Transitions ==
    [][t_state' # t_state
       => \/ /\ t_state' = "ZOMBIE"
             /\ ctl_op' = "set_as_zombie"
          \/ /\ t_state \in {"ACTIVE", "ZOMBIE"}
             /\ t_state' = "DEAD"
             /\ async_connected
             /\ ctl_op' \in {"disconnect", "connect"}
          \/ /\ t_state \in {"DEAD", "ZOMBIE"}
             /\ t_state' = "ACTIVE"
             /\ ctl_op' = "connect"]_vars

\* DEAD has been left twice: by connect, and after a disconnect by
\* set_as_zombie.
C7_Witness ==
    /\ t_state = "ZOMBIE"
    /\ ctl_op = "set_as_zombie"
    /\ ~async_connected
    /\ thr = "exited"

\* C8: a message received after set_as_zombie (the state was ZOMBIE when
\* socket.recv returned it) is discarded: no handler is called for it and
\* the thread goes back to the head of its loop.
C8_ZombieDiscards ==
    [][(thr = "got" /\ recv_state = "ZOMBIE" /\ thr' # "got")
       => (calls' = <<>> /\ thr' = "loop")]_vars

Finished == thr \in {"exited", "crashed", "died"}

\* C9: disconnect on a connected subscriber first sets the state to DEAD,
\* then terminates the context, then joins, and returns only after the
\* background thread has ended; once the context is being terminated the
\* thread eventually ends.
C9_DisconnectJoins ==
    /\ [](/\ ctl \in {"term", "join"} => (t_state = "DEAD" /\ async_connected)
          /\ ctl = "term" => context = "open"
          /\ ctl = "join" => context = "terminated")
    /\ [][/\ (ctl = "idle" /\ ctl' # "idle" /\ async_connected
              /\ ctl_op' \in {"disconnect", "connect"})
             => (t_state' = "DEAD" /\ ctl' = "term")
          /\ (ctl = "term" /\ ctl' # "term") => ctl' = "join"
          /\ (ctl = "join" /\ ctl' # "join")
             => (thr \in {"exited", "crashed"} /\ ~async_connected')]_vars
    /\ (ctl = "term") ~> Finished

C9_Witness ==
    /\ ctl = "idle"
    /\ ctl_op = "disconnect"
    /\ ctl_result = "ok"
    /\ t_state = "DEAD"
    /\ context = "terminated"
    /\ thr = "exited"
    /\ ~async_connected

IsIn(c, seq) == \E i \in 1..Len(seq) : seq[i] = c

\* The thread has just dealt with a received message / a receive timeout.
Processed == thr = "got" /\ thr' # "got"
TimedOut == thr = "recv" /\ thr' = "loop" /\ context = "open"

\* The alternation of the two notifications within one run of the thread.
Alternates ==
    /\ IsIn("on_async_alive", calls') => last_note # "alive"
    /\ IsIn("on_async_timeout", calls') => last_note = "alive"
    /\ TimedOut => (IsIn("on_async_timeout", calls') <=> last_note = "alive")

C11_ZombieIsSilent ==
    [][(t_state = "ZOMBIE" /\ (Processed \/ TimedOut))
       => /\ ~IsIn("on_async_alive", calls')
          /\ ~IsIn("on_async_timeout", calls')]_vars

\* The receive has just been unblocked by the termination of the context.
JustCancelled == recv_state = "terminated"

\* C12: once disconnect has terminated the context the pending receive ends
\* with the cancellation, upon which the loop exits without a handler call,
\* and no on_async_timeout is called from then on.
C12_CancelIsNotTimeout ==
    [][/\ (thr = "recv" /\ context = "terminated" /\ thr' # "recv")
          => (thr' = "exited" /\ calls' = <<>> /\ recv_state' = "terminated")
       /\ (context = "terminated" /\ thr' # thr /\ thr' # "start")
          => ~IsIn("on_async_timeout", calls')]_vars

\* The thread had fired on_async_alive (a receive timeout would fire
\* on_async_timeout) when disconnect cancelled its receive; it has ended and
\* disconnect is about to return.
C12_Witness ==
    /\ JustCancelled
    /\ thr = "exited"
    /\ got_data
    /\ last_note = "alive"
    /\ calls = <<>>
    /\ ctl = "join"
    /\ t_state = "DEAD"

\* barrier() called by the user has just ended.
BarrierReturns == ctl_op = "barrier" /\ ctl # "idle" /\ ctl' = "idle"
BarrierDone == ctl_op = "barrier" /\ ctl = "idle"

\* C13: when the token is acknowledged while the deadline has not elapsed
\* (time.time() > expr is false), barrier does not raise the timeout error;
\* once it reads the ack at its loop test it returns successfully and
\* transmits no further publish_now.
C13_AckBeforeDeadline ==
    [][/\ (ctl_op = "barrier" /\ ctl = "spin" /\ async_barrier.ack
           /\ clock <= expr /\ ctl' # "spin")
          => ctl_result' # "timeout"
       /\ (ctl_op = "barrier" /\ ctl = "publish" /\ async_barrier.ack
           /\ ctl' # "publish")
          => (ctl' = "idle" /\ ctl_result' = "ok" /\ publishes' = publishes)]_vars

\* C14 as stated: a barrier whose token was not acknowledged and whose
\* publish_now calls all returned has raised the timeout error, after the
\* deadline, having transmitted at most one publish_now per fast loop.
C14_TimeoutUnlessAcked ==
    /\ (BarrierDone /\ ~async_barrier.ack /\ ctl_result # "TrexError")
       => ctl_result = "timeout"
    /\ (BarrierDone /\ ctl_result = "timeout") => clock > expr
    /\ publishes <= expr + 1

\* C14 as amended: a barrier whose token's ack flag was not set and whose
\* publish_now calls all returned a truthy result has raised the timeout
\* error; it raises it only after the deadline; every outer iteration
\* transmits one publish_now, at most expr + 1 in all; and every barrier
\* ends.
C14_TimeoutAtDeadline ==
    /\ []((BarrierDone /\ ~async_barrier.ack
           /\ ctl_result \notin {"falsy", "TrexError"})
          => ctl_result = "timeout")
    /\ []((BarrierDone /\ ctl_result = "timeout") => clock > expr)
    /\ [](publishes <= expr + 1)
    /\ [][/\ (ctl = "publish" /\ ctl' = "spin") => publishes' = publishes + 1
          /\ (ctl = "spin" /\ ctl' # "spin") => publishes' = publishes
          /\ (ctl = "spin" /\ ctl' = "idle") => clock' > expr]_vars
    /\ (ctl = "publish") ~> (ctl = "idle")

\* A barrier with a deadline of one fast loop has raised the timeout error
\* after its second publish_now.
C14_Witness ==
    /\ BarrierDone
    /\ ctl_result = "timeout"
    /\ ~async_barrier.ack
    /\ expr = 1
    /\ publishes = 2
    /\ clock > expr

\* C15 as stated: barrier returns normally with its token acknowledged, or
\* raises the timeout error.
C15_TwoOutcomes ==
    [][BarrierReturns
       => \/ ctl_result' = "ok" /\ async_barrier.ack
          \/ ctl_result' = "timeout"]_vars

\* C15 as amended: barrier returns None having read the ack of its token,
\* returns the falsy result of publish_now or lets the exception of transmit
\* through (from the loop test, the token not acknowledged), or raises the
\* timeout error after a fast loop.
C15_Outcomes ==
    [][BarrierReturns
       => \/ ctl_result' = "ok" /\ async_barrier.ack /\ ctl = "publish"
          \/ /\ ctl_result' \in {"falsy", "TrexError"}
             /\ ~async_barrier.ack
             /\ ctl = "publish"
             /\ publishes' = publishes + 1
          \/ ctl_result' = "timeout" /\ ctl = "spin"]_vars

\* barrier has returned the falsy result of its first publish_now, the token
\* not acknowledged.
C15_Witness ==
    /\ BarrierDone
    /\ ctl_result = "falsy"
    /\ ~async_barrier.ack
    /\ publishes = 1

\* C16: there is one token, and its ack flag becomes true only in the
\* dispatch of a trex-barrier message that carries the key of that token.
C16_AckOnlyByOwnKey ==
    [][(async_barrier' # async_barrier /\ async_barrier'.ack)
       => /\ async_barrier'.key = async_barrier.key
          /\ line.name = "trex-barrier"
          /\ line.type = async_barrier.key]_vars

\* The handlers __dispatch called among the calls c.
Routed(c) ==
    SelectSeq(c, LAMBDA h : h \notin {"on_async_alive", "on_async_crash"})

\* C17: a message processed in ACTIVE state is routed by its name to exactly
\* one handler, the one of its tag; a message with an unknown tag calls no
\* handler, raises nothing and the thread goes back to the head of its loop.
C17_DispatchByName ==
    [][(Processed /\ t_state = "ACTIVE" /\ line.kind = "msg")
       => /\ line.name = "trex-global"
             => Routed(calls') = <<"on_async_stats_update">>
          /\ line.name = "trex-event"
             => Routed(calls') = <<"on_async_event">>
          /\ line.name = "trex-barrier"
             => Routed(calls') = <<"handle_async_barrier">>
          /\ line.name = "flow_stats"
             => Routed(calls') = <<"on_async_rx_stats_event">>
          /\ line.name = "latency_stats"
             => Routed(calls') = <<"on_async_latency_stats_event">>
          /\ line.name = "other"
             => (Routed(calls') = <<>> /\ thr' = "loop"
                 /\ ~IsIn("on_async_crash", calls'))]_vars

\* A flow_stats message, not the first message of the thread, has been
\* routed in ACTIVE state.
C17_Witness ==
    /\ thr = "loop"
    /\ t_state = "ACTIVE"
    /\ got_data
    /\ calls = <<"on_async_rx_stats_event">>
    /\ last_data_recv_ts = "time"
    /\ last_note = "alive"
    /\ line = NoLine

Crashes(c) == Len(SelectSeq(c, LAMBDA h : h = "on_async_crash"))

\* C18: a message that cannot be decoded or parsed ends the loop by an
\* exception; whenever the loop ends by an exception on_async_crash is
\* called exactly once, the process group is signalled and the socket is
\* closed; the cancellation of the receive by disconnect ends the loop
\* without a call of on_async_crash, as does the loop test.
C18_CrashHandler ==
    [][/\ (Processed /\ t_state # "ZOMBIE"
           /\ line.kind \in {"undecodable", "badjson"})
          => thr' = "crashed"
       /\ (thr # "crashed" /\ thr' = "crashed")
          => (Crashes(calls') = 1 /\ signalled' /\ sub_socket' = "closed")
       /\ (thr' # thr /\ thr' \notin {"crashed", "start"})
          => (Crashes(calls') = 0 /\ signalled' = signalled)
       /\ (thr = "recv" /\ context = "terminated" /\ thr' # thr)
          => (thr' = "exited" /\ sub_socket' = "closed")]_vars

\* The thread has crashed on a message that decodes but is no JSON.
C18_Witness ==
    /\ thr = "crashed"
    /\ calls = <<"on_async_alive", "on_async_crash">>
    /\ signalled
    /\ sub_socket = "closed"
    /\ context = "open"

\* C19: an invoke of a batch that has not raised has returned as many
\* responses as the batch has requests.
C19_AllOrNothing ==
    \A t \in Threads :
        (pc[t] = "done" /\ phase[t] \in {"whole", "chunk", "last"})
        => \/ result[t].status \notin {"ok", "empty"}
           \/ Len(result[t].val) = Len(batch_list[t])

\* C20: no running thread is ever left behind; a thread is started only
\* when the one before has ended; connect on a connected subscriber first
\* writes DEAD and terminates the context, and goes on to start the thread
\* only after the old one has ended.
C20_OneThread ==
    /\ [](orphans = 0)
    /\ [][/\ (ctl = "start" /\ ctl' # "start")
             => (thr \in {"none", "exited", "crashed", "died"} /\ thr' = "start")
          /\ (ctl = "idle" /\ ctl_op' = "connect" /\ ctl' # "idle"
              /\ async_connected)
             => (t_state' = "DEAD" /\ ctl' = "term" /\ thr' = thr)
          /\ (ctl = "join" /\ ctl' = "start")
             => (t_state = "DEAD" /\ thr \in {"exited", "crashed"})]_vars

\* connect has started a thread after an earlier thread, which had received
\* data, was cancelled and joined.
C20_Witness ==
    /\ thr = "start"
    /\ ctl_op = "connect"
    /\ async_connected
    /\ t_state = "ACTIVE"
    /\ context = "open"
    /\ recv_state = "terminated"
    /\ got_data
    /\ orphans = 0

(***************************************************************************)
(* Properties of the statistics objects.                                   *)
(***************************************************************************)
\* The longest suffix of key made of digits, as its length.
RECURSIVE DigitSuffix(_, _)
DigitSuffix(key, n) ==
    IF n < Len(key) /\ key[Len(key) - n] \in Digits
    THEN DigitSuffix(key, n + 1) ELSE n

\* key has the form <field>-<n> with the port index n as its suffix.
IsPortKey(key) ==
    LET n == DigitSuffix(key, 0)
    IN n >= 1 /\ Len(key) > n /\ key[Len(key) - n] = "-"

PortIndex(key) == SubSeq(key, Len(key) - DigitSuffix(key, 0) + 1, Len(key))
FieldName(key) == SubSeq(key, 1, Len(key) - DigitSuffix(key, 0) - 1)

\* The item is in the bucket of port n under the field name f.
InPortBucket(n, f, v) ==
    \E p \in DOMAIN mgr.ports :
        <<p>> = n /\ f \in DOMAIN mgr.ports[p] /\ mgr.ports[p][f] = v

InSomePortBucket(v) ==
    \E p \in DOMAIN mgr.ports :
        \E f \in DOMAIN mgr.ports[p] : mgr.ports[p][f] = v

InGeneralBucket(k, v) == k \in DOMAIN mgr.general /\ mgr.general[k] = v

\* C21: after update every item with a key <field>-<n> is in the bucket of
\* port n under <field> and not in the general bucket, and every other item
\* is in the general bucket under its key and in no port bucket.
C21_Partition ==
    mgr.done
    => \A i \in 1..Len(mgr.snapshot) :
          LET k == mgr.snapshot[i].key
              v == mgr.snapshot[i].value
          IN IF IsPortKey(k)
             THEN /\ InPortBucket(PortIndex(k), FieldName(k), v)
                  /\ \A g \in DOMAIN mgr.general : mgr.general[g] # v
             ELSE /\ InGeneralBucket(k, v)
                  /\ ~InSomePortBucket(v)

\* C22 as stated: current is the snapshot received last, and the reference
\* point is the first snapshot ever received: it is set on the first update
\* and never changes afterwards.
C22_ReferenceSetOnce ==
    /\ [](\A o \in Scopes :
            scope[o].first # "None"
            => (scope[o].current = scope[o].last
                /\ scope[o].ref_point = scope[o].first))
    /\ [][\A o \in Scopes :
            scope[o].ref_point # "None"
            => scope'[o].ref_point = scope[o].ref_point]_vars

\* C22 as amended: current is the snapshot received last (the empty dict
\* before the first); update sets the reference point, to the snapshot it
\* is called with, only when it is None, which is the first update unless a
\* clear came before it; clear sets it to current; nothing else changes it.
C22_ReferenceSetOnceOrCleared ==
    /\ [](\A o \in Scopes :
            /\ scope[o].current = (IF scope[o].last = "None" THEN "{}"
                                   ELSE scope[o].last)
            /\ scope[o].ref_point = "None" => scope[o].first = "None")
    /\ [][\A o \in Scopes :
            scope'[o].ref_point # scope[o].ref_point
            => \/ /\ scope[o].ref_point = "None"
                  /\ scope'[o].ref_point = scope'[o].current
               \/ /\ scope'[o].current = scope[o].current
                  /\ scope'[o].last = scope[o].last
                  /\ scope'[o].ref_point = scope[o].current]_vars

\* After three updates and no clear the reference point is still the first
\* snapshot and current the third.
C22_Witness ==
    /\ scope["general"].first = "s1"
    /\ scope["general"].ref_point = "s1"
    /\ scope["general"].current = "s3"
    /\ scope["port"].ref_point = "s2"
    /\ scope["port"].current = "s2"

\* A step in which _tick ran, and the object as that tick found it.
Ticked == util'.pre # util.pre
AtTick == util'.pre

\* The sleep of the interval the tick closes, the running sleep included.
SleptAtTick == IF AtTick.state = "SLEEP"
               THEN AtTick.total_sleep + AtTick.asleep
               ELSE AtTick.total_sleep

\* v = 0.75 * old + 0.25 * new, on fractions.
IsSmoothed(v, old, new) ==
    4 * v[1] * old[2] * new[2]
        = v[2] * (3 * old[1] * new[2] + new[1] * old[2])

CpuFolded ==
    IsSmoothed(util'.cpu_util, AtTick.cpu_util,
               <<AtTick.ts - SleptAtTick, AtTick.ts>>)

BpsFolded ==
    IsSmoothed(util'.bps, AtTick.bps,
               <<AtTick.total_bits * OneSecond, AtTick.ts>>)

IntervalReset ==
    /\ util'.total_sleep = 0
    /\ util'.total_bits = 0
    /\ util'.age = 0

IntervalKept ==
    /\ util'.cpu_util = AtTick.cpu_util
    /\ util'.bps = AtTick.bps
    /\ util'.total_sleep = AtTick.total_sleep
    /\ util'.total_bits = AtTick.total_bits
    /\ util'.age = AtTick.ts

\* C23 as stated: a tick on an interval of at least one second sets both
\* averages to 0.75 * old + 0.25 * new (the awake fraction, the bit rate)
\* and resets the interval; a tick on a shorter interval changes nothing.
C23_TickFoldsBoth ==
    [][Ticked
       => IF AtTick.ts >= OneSecond
          THEN CpuFolded /\ BpsFolded /\ IntervalReset
          ELSE IntervalKept]_vars

\* C23 as amended: on such a tick cpu_util is folded only when the interval
\* holds some sleep and bps only when it holds some bits; either average is
\* left as it was otherwise; the interval is reset in every case.  A tick
\* on a shorter interval changes nothing.
C23_TickFoldsWhatItHas ==
    [][Ticked
       => IF AtTick.ts >= OneSecond
          THEN /\ IF SleptAtTick > 0 THEN CpuFolded
                  ELSE util'.cpu_util = AtTick.cpu_util
               /\ IF AtTick.total_bits > 0 THEN BpsFolded
                  ELSE util'.bps = AtTick.bps
               /\ IntervalReset
          ELSE IntervalKept]_vars

\* A second tick has folded an interval with sleep and bits into averages
\* that were not zero.
C23_Witness ==
    /\ util.folds = 2
    /\ util.age = 0
    /\ util.pre.ts >= OneSecond
    /\ util.pre.cpu_util # Frac(0, 1)
    /\ util.pre.bps # Frac(0, 1)
    /\ util.pre.total_bits > 0
    /\ util.pre.total_sleep > 0
    /\ util.cpu_util # util.pre.cpu_util
    /\ util.bps # util.pre.bps

(***************************************************************************)
(* Properties of the port statistics.                                      *)
(***************************************************************************)
\* C24: after clear_stats, read_stats returns every counter whose name does
\* not end in "ps" as the server's value minus the value the latest
\* clear_stats captured, and every counter whose name ends in "ps" as the
\* server reports it; the captured base values stay as clear_stats read
\* them, whatever is read afterwards.
C24_ReadStatsAdjusted ==
    trex_port.cleared
    => /\ \A n \in StatNames :
             /\ n \in DOMAIN trex_port.base_stats
             /\ trex_port.base_stats[n] = trex_port.captured[n]
       /\ trex_port.op = "read_stats"
          => /\ trex_port.raised = "none"
             /\ DOMAIN trex_port.returned = StatNames
             /\ trex_port.returned[opackets] =
                   trex_port.server[opackets] - trex_port.captured[opackets]
             /\ trex_port.returned[tx_pps] = trex_port.server[tx_pps]

\* read_stats after traffic that followed a clear_stats taken with counters
\* already above zero.
C24_Witness ==
    /\ trex_port.cleared
    /\ trex_port.op = "read_stats"
    /\ trex_port.captured[opackets] = 1
    /\ trex_port.server[opackets] = 2
    /\ trex_port.returned[opackets] = 1
    /\ trex_port.captured[tx_pps] = 5
    /\ trex_port.returned[tx_pps] = 5

\* C25: after clear_stats, read_xstats returns every extended counter as
\* the server's value minus the value the latest clear_stats read.
C25_ReadXstatsAdjusted ==
    (trex_port.cleared /\ trex_port.op = "read_xstats")
    => \A n \in XstatNames :
          /\ n \in DOMAIN trex_port.returned
          /\ trex_port.returned[n] =
                trex_port.xserver[n] - trex_port.xcaptured[n]

(***************************************************************************)
(* Properties of the compression codec and of its use.                     *)
(***************************************************************************)
Tagged(P) == Len(P) >= 1 /\ P[1] = "M"
BelowThreshold(P) == Len(P) <= 2
Plain(P) == \A Q \in Payloads : compress(Q) # P

RoundTrip ==
    zip.op = "roundtrip"
    => /\ zip.output = [kind |-> "bytes", value |-> zip.input]
       /\ is_compressed(zip.packed)
       /\ zip.packed # zip.input

SendCompressesAboveThreshold ==
    zip.op = "send"
    => /\ zip.output.kind = "bytes"
       /\ IF BelowThreshold(zip.input)
          THEN zip.output.value = zip.input
          ELSE /\ Tagged(zip.output.value)
               /\ decompress(zip.output.value).kind = "bytes"
               /\ decompress(zip.output.value).value = zip.input

RecvDecompressesTagged ==
    zip.op = "recv"
    => IF Tagged(zip.input)
       THEN zip.output = decompress(zip.input)
       ELSE zip.output = [kind |-> "bytes", value |-> zip.input]

Validated(t) == pc[t] = "check" /\ pc'[t] # "check"

\* C27: a reply that is no JSON makes the call fail with the TrexError
\* "[RPC] - Failed to decode response from server", never with an untyped
\* exception of the decoder and never as a success.
C27_UndecodableIsTypedError ==
    [][\A t \in Threads :
          (Validated(t) /\ response[t].kind = "garbage")
          => /\ pc'[t] = "done"
             /\ result'[t].status = "Failed to decode response from server"]_vars

\* A response that holds both a result and an error object, or an error
\* object with neither a message nor a specific_err.
NotWellFormed(e) ==
    e.jsonrpc = "2.0" /\ (e.error = "empty" \/ (e.result /\ e.error # "absent"))

\* C28: a response with both result and error, or with an error object that
\* holds neither a message nor a specific_err, is rejected as a malformed
\* response.
C28_ExactlyOneOfResultError ==
    [][\A t \in Threads :
          (/\ Validated(t)
           /\ response[t].kind = "json"
           /\ Len(response[t].elems) = 1
           /\ NotWellFormed(response[t].elems[1]))
          => result'[t].status = "Malformed"]_vars

\* The first element of a reply that is malformed or carries an error, 0
\* when there is none.
FirstBad(es) ==
    IF \E i \in 1..Len(es) : IsMalformed(es[i]) \/ CarriesError(es[i])
    THEN CHOOSE i \in 1..Len(es) :
            /\ IsMalformed(es[i]) \/ CarriesError(es[i])
            /\ \A j \in 1..(i - 1) : ~IsMalformed(es[j]) /\ ~CarriesError(es[j])
    ELSE 0

\* C29: the error raised for a response that carries an error object is its
\* specific_err when it has one and its message otherwise, and in a batch
\* reply the first element that carries an error or is malformed decides
\* which error is raised.
C29_MostSpecificOfFirst ==
    [][\A t \in Threads :
          (Validated(t) /\ response[t].kind = "json"
           /\ FirstBad(response[t].elems) # 0)
          => LET e == response[t].elems[FirstBad(response[t].elems)]
             IN /\ pc'[t] = "done"
                /\ result'[t].status \notin {"ok", "empty", "none"}
                /\ IsMalformed(e) => result'[t].status = "Malformed"
                /\ (CarriesError(e) /\ e.error = "specific_err")
                      => result'[t].status = "specific_err"
                /\ (CarriesError(e) /\ e.error = "message")
                      => result'[t].status = "message"]_vars

\* A batch reply whose first element is fine and whose second carries a
\* specific_err, before a third problem could be looked at.
C29_Witness ==
    /\ pc[MainThread] = "done"
    /\ response[MainThread].kind = "json"
    /\ Len(response[MainThread].elems) = 2
    /\ check_response(response[MainThread].elems[1]) = "ok"
    /\ response[MainThread].elems[2].jsonrpc = "2.0"
    /\ response[MainThread].elems[2].error = "specific_err"
    /\ result[MainThread].status = "specific_err"

\* A reply that is no JSON, or holds an element that is malformed or carries
\* an error.
Rejected(r) ==
    \/ r.kind = "garbage"
    \/ r.kind = "json" /\ FirstBad(r.elems) # 0

\* C30: a reply that is undecodable, malformed or carries a server error
\* ends the call at once with a failure: nothing more is sent or received,
\* whatever is left of the retry budget, and the transport stays connected.
C30_RejectedFailsAtOnce ==
    [][\A t \in Threads :
          (Validated(t) /\ Rejected(response[t]))
          => /\ pc'[t] = "done"
             /\ result'[t].status \notin {"ok", "empty", "none"}
             /\ send_attempts'[t] = send_attempts[t]
             /\ recv_attempts'[t] = recv_attempts[t]
             /\ connected' = connected
             /\ socket' = socket
             /\ lock' # t]_vars

\* A server error was raised with retry budget left and the transport is
\* still connected.
C30_Witness ==
    /\ pc[MainThread] = "done"
    /\ retry_left[MainThread] = 1
    /\ response[MainThread].kind = "json"
    /\ result[MainThread].status = "message"
    /\ connected
    /\ socket = "ready"

(***************************************************************************)
(* Properties of the chunking of a batch.                                  *)
(***************************************************************************)
\* The summed serialized size of the envelopes of the wire message m of t.
RECURSIVE SizeOf(_, _)
SizeOf(t, m) ==
    IF m = <<>> THEN 0
    ELSE batch_list[t][m[1]] + SizeOf(t, Tail(m))

AllButLast(m) == SubSeq(m, 1, Len(m) - 1)

\* invoke hands a wire message to send_msg.
Hands(t) == pc[t] \in {"idle", "loop"} /\ pc'[t] = "lock" /\ batch_list[t] # <<>>

\* The message handed over holds the envelopes from the loop position on, in
\* insertion order, none left out and none repeated.
NextInOrder(t) ==
    /\ idx'[t] > idx[t]
    /\ msg'[t] = [k \in 1..(idx'[t] - idx[t]) |-> idx[t] + k - 1]

\* A chunked invoke returns normally only with every envelope handed over.
ReturnsAfterAll(t) ==
    (/\ pc[t] \in {"loop", "check"}
     /\ pc'[t] = "done"
     /\ phase'[t] \in {"chunk", "last"}
     /\ result'[t].status = "ok")
    => idx'[t] = Len(batch_list[t]) + 1

\* C31 as stated: every chunk is the next envelopes in insertion order, a
\* chunk of more than one envelope has a summed size of at most chunk_size,
\* the remainder goes last, and without a chunk_size the batch is one wire
\* message.
C31_ChunksWithinSize ==
    [][\A t \in Threads :
          /\ Hands(t)
             => IF phase'[t] = "whole" THEN msg'[t] = AllIds(t)
                ELSE /\ NextInOrder(t)
                     /\ Len(msg'[t]) > 1 => SizeOf(t, msg'[t]) <= chunk_size[t]
                     /\ phase'[t] = "last" => idx'[t] = Len(batch_list[t]) + 1
          /\ ReturnsAfterAll(t)]_vars

\* C31 as amended: the group is flushed once its summed size exceeds
\* chunk_size, the envelope that made it exceed included: a flushed chunk is
\* larger than chunk_size and is not so without its last envelope; the
\* remainder, of a size of at most chunk_size, goes last.
C31_ChunksFlushedPastSize ==
    [][\A t \in Threads :
          /\ Hands(t)
             => IF phase'[t] = "whole" THEN msg'[t] = AllIds(t)
                ELSE /\ NextInOrder(t)
                     /\ phase'[t] = "chunk"
                        => /\ SizeOf(t, msg'[t]) > chunk_size[t]
                           /\ SizeOf(t, AllButLast(msg'[t])) <= chunk_size[t]
                     /\ phase'[t] = "last"
                        => /\ SizeOf(t, msg'[t]) <= chunk_size[t]
                           /\ idx'[t] = Len(batch_list[t]) + 1
          /\ ReturnsAfterAll(t)]_vars

\* A chunk of two envelopes that is larger than chunk_size is on its way.
C31_Witness ==
    \E t \in Threads :
        /\ pc[t] = "recv"
        /\ phase[t] = "chunk"
        /\ Len(msg[t]) = 2
        /\ SizeOf(t, msg[t]) > chunk_size[t]

(***************************************************************************)
(* Further properties of the subscriber.                                   *)
(***************************************************************************)
\* The step in which the loop body deals with the received line.
Handles == thr = "got" /\ thr' # "got"

\* C32: a message processed in ACTIVE state leaves its data in raw_snapshot
\* under its tag, whether the dispatch knows the tag or not, and changes no
\* other entry; a message received while the state was ZOMBIE changes
\* nothing; nothing else writes raw_snapshot.
C32_LatestPerTag ==
    [][/\ (Handles /\ recv_state = "ZOMBIE") => raw_snapshot' = raw_snapshot
       /\ (/\ Handles
           /\ recv_state = "ACTIVE"
           /\ t_state = "ACTIVE"
           /\ line.kind = "msg"
           /\ line.name \in SnapshotTags)
          => /\ line.name \in DOMAIN raw_snapshot'
             /\ raw_snapshot'[line.name] = line.data
             /\ \A n \in DOMAIN raw_snapshot' \ {line.name} :
                   n \in DOMAIN raw_snapshot /\ raw_snapshot'[n] = raw_snapshot[n]
       /\ ~Handles => raw_snapshot' = raw_snapshot]_vars

\* The loop body dispatches a trex-barrier message.
DispatchesBarrier ==
    /\ Handles
    /\ thr # "ack"
    /\ ~Discards
    /\ line.kind = "msg"
    /\ line.name = "trex-barrier"

\* C33: dispatching a trex-barrier message never raises: the thread goes on
\* (to the store of the ack or back to the head of the loop) without a crash
\* report, a signal to the process group or a closed socket, also when no
\* token exists yet and when the key matches no token.
C33_BarrierDispatchNeverRaises ==
    [][DispatchesBarrier
       => /\ thr' \in {"ack", "loop"}
          /\ signalled' = signalled
          /\ sub_socket' = sub_socket]_vars

(***************************************************************************)
(* Further properties of the RPC transport.                                *)
(***************************************************************************)
\* C34: within one _send_raw_msg_safe the request is transmitted once: the
\* receive loop never goes back to sending, a receive timeout only counts
\* one more receive, the receive loop starts with the whole retry budget
\* whatever the send loop used up, and it gives up only after retry + 1
\* receives of its own.
C34_SentOnceThenReceived ==
    [][\A t \in Threads :
         /\ pc[t] = "recv"
            => /\ pc'[t] # "send"
               /\ send_attempts'[t] = send_attempts[t]
               /\ socket' = "sent" => socket = "sent"
         /\ (pc[t] = "send" /\ pc'[t] = "recv")
            => /\ retry_left'[t] = retry[t]
               /\ recv_attempts'[t] = 0
         /\ (pc[t] = "recv" /\ result'[t] = Raised("RecvFailed")
                           /\ pc'[t] = "done")
            => recv_attempts'[t] = retry[t] + 1]_vars

\* The send loop used up a retry, the request then went out once, and the
\* receive loop has used a retry of its own and is receiving again.
C34_Witness ==
    \E t \in Threads :
        /\ pc[t] = "recv"
        /\ retry[t] > 0
        /\ send_attempts[t] = retry[t] + 1
        /\ recv_attempts[t] > 0
        /\ socket = "sent"

\* Thread t is inside "with self.lock" and the step is not one of its own.
InFlightUntouched(t) ==
    /\ lock = t
    /\ pc[t] \in {"send", "recv"}
    /\ pc'[t] = pc[t]
    /\ send_attempts'[t] = send_attempts[t]
    /\ recv_attempts'[t] = recv_attempts[t]

\* C35: while a thread is between its send and its receive inside the
\* critical section, no step of another thread closes or replaces the
\* socket or changes the connected flag.
C35_NoTeardownDuringRequest ==
    [][\A t \in Threads :
         InFlightUntouched(t) => UNCHANGED <<socket, connected>>]_vars

\* Thread t is inside a chunked invoke: a chunk of its batch is on the wire
\* or answered, and envelopes of the batch are still to be sent.
MidBatch(t) ==
    /\ phase[t] = "chunk"
    /\ pc[t] \in {"recv", "check", "loop"}
    /\ idx[t] <= Len(batch_list[t])

\* socket.send of thread u puts its request on the wire.
Transmits(u) == pc[u] = "send" /\ pc'[u] = "recv"

\* C36: between the first and the last chunk of one chunked invoke no other
\* caller's request goes out on the connection.
C36_BatchContiguous ==
    [][\A t \in Threads : \A u \in Threads \ {t} :
         MidBatch(t) => ~Transmits(u)]_vars

\* The step with which the API call op of the controlling thread returns or
\* raises.
Ends(op) == ctl_op = op /\ ctl # "idle" /\ ctl' = "idle"

ObservesCancellation == thr = "recv" /\ Cancelled /\ recv_state' = "terminated"

\* C38: when the receive loop observes the cancellation the state is DEAD
\* or ZOMBIE, never ACTIVE, so the assert of the cancellation branch holds
\* and the thread ends by the break, without a crash report.
C38_CancelledNeverActive ==
    [][ObservesCancellation
       => /\ t_state \in {"DEAD", "ZOMBIE"}
          /\ thr' = "exited"
          /\ signalled' = signalled
          /\ calls' = <<>>]_vars

\* The thread has observed the cancellation of a disconnect() that followed
\* set_as_zombie() and has ended; the controlling thread is still in its
\* join.
C38_Witness ==
    /\ recv_state = "terminated"
    /\ thr = "exited"
    /\ t_state = "DEAD"
    /\ last_data_recv_ts = "None"
    /\ ctl = "join"

\* Where the background thread stands with respect to "with self.monitor".
InScope == thr = "recv"
Processing == thr \in {"got", "ack"}

\* C39: the monitor is asleep exactly while the thread is blocked in its
\* receive: the scope is entered from AWAKE and left from SLEEP however the
\* receive ends, so the asserts of __enter__ and __exit__ hold, the monitor
\* is AWAKE while a message is processed, and its state changes at no other
\* step of the loop.
C39_SleepAwakeAlternate ==
    [][/\ (thr = "loop" /\ LoopCondition) => EnterAssert
       /\ InScope => ExitAssert
       /\ (InScope /\ ~InScope') => monitor' = "AWAKE"
       /\ (~InScope /\ InScope') => monitor' = "SLEEP"
       /\ Processing => monitor = "AWAKE"
       /\ (InScope <=> InScope') => monitor' = monitor \/ thr = "start"]_vars

\* The thread is processing a message it received, awake, in a later round
\* of the loop, after earlier receives ended by a message and by a timeout.
C39_Witness ==
    /\ thr = "got"
    /\ monitor = "AWAKE"
    /\ last_note = "timeout"
    /\ line.kind = "msg"

\* C40: every wire message of a batch is handed to send_msg with the retry
\* budget invoke was called with, the chunks of chunked mode like the single
\* message of unchunked mode, and its loops start with that budget.
C40_RetryForEveryChunk ==
    [][\A t \in Threads :
         /\ Hands(t) => retry'[t] = invoke_retry'[t]
         /\ (pc[t] = "lock" /\ pc'[t] = "send"
                           /\ phase[t] \in {"chunk", "last", "whole"})
            => retry_left'[t] = invoke_retry[t]]_vars
====
